---------------------------- MODULE Spec2Model ----------------------------
(***************************************************************************)
(* The liquidity-collision pipeline (CollisionAgent) of F.I.N.T.R.O and    *)
(* the forecast pipeline (ForecastingAgent) it calls.                      *)
(*                                                                         *)
(* One run of CollisionAgent's graph is modelled: the eight nodes run in   *)
(* the order of create_graph's edges, each node is one action, and the     *)
(* shared state dictionary is the set of variables below.  The compiled    *)
(* graph is taken to run its nodes in edge order and to hand back the      *)
(* final state, for both agents.                                           *)
(*                                                                         *)
(* Numbers.  Money is an integer count of units of 100 currency units;    *)
(* every amount that comes from the backend is a multiple of 10 units, so  *)
(* that the code's factor 0.3 is exact.  Probabilities are counted in      *)
(* twentieths (0.75 = 15/20), severity before rounding in units of         *)
(* 1/2000000 point, severity after round(x, 2) in hundredths of a point.   *)
(* Dates are day numbers; a date string is a record that says whether it   *)
(* parses.  Text that the code searches (bill categories) is a sequence of *)
(* characters.                                                             *)
(***************************************************************************)
EXTENDS Integers, Sequences, FiniteSets, TLC

\* ------------------------------------------------------------------ bounds
\* Length of the forecast horizon that is checked (the code runs range(91)).
ForecastDays == 3
\* MIN_HISTORICAL_DAYS of the environment the run is checked under.
MIN_DAYS == 2

\* datetime.now().date(), as a day number.
Today == 100

\* ------------------------------------------------------------ generic helpers
Max(a, b) == IF a >= b THEN a ELSE b
Min(a, b) == IF a <= b THEN a ELSE b

RECURSIVE SumSeq(_)
SumSeq(s) == IF s = <<>> THEN 0 ELSE Head(s) + SumSeq(Tail(s))

\* The marker of a dictionary key that is not there.
Absent == "<absent>"

\* --------------------------------------------------------------- date strings
\* A raw date as the backend sends it: kind "iso" (YYYY-MM-DD...), "bad"
\* (text that no parser accepts) or "none" (no such field).
RawDate(d) == [kind |-> "iso", day |-> d]
BadDate == [kind |-> "bad", day |-> 0]
NoDateField == [kind |-> "none", day |-> 0]

\* A parsed date: ok = FALSE is Python's None.
NoneDate == [ok |-> FALSE, day |-> 0]

\* CollisionAgent._parse_date
ParseDate(s) ==
    IF s.kind = "none" THEN NoneDate
    ELSE IF s.kind = "iso" THEN [ok |-> TRUE, day |-> s.day]
    ELSE NoneDate

\* ForecastingAgent._safe_date_parse and the inline parsers of load_historical_data
SafeDateParse(s) ==
    IF s.kind = "none" THEN NoneDate
    ELSE IF s.kind = "iso" THEN [ok |-> TRUE, day |-> s.day]
    ELSE NoneDate

\* date.strftime('%Y-%m-%d')
Strftime(d) == [kind |-> "iso", day |-> d]


RECURSIVE SortedSeqOf(_)
\* sorted(S) for a set of day numbers
SortedSeqOf(S) ==
    IF S = {} THEN <<>>
    ELSE LET m == CHOOSE x \in S : \A y \in S : x <= y
         IN <<m>> \o SortedSeqOf(S \ {m})

\* ===================================================================
\* The forecast pipeline (Forecast_Agent/agent.py)
\* ===================================================================
\* A payment as the backend sends it:
\*   [date: raw date, amount: [ok, val], ptype: text, sign: text]
\* amount.ok = FALSE is an amount that float() rejects twice.

\* (p.get("payment_type") or p.get("type") or "").lower()
LowerType(t) ==
    IF t = "Inflow" THEN "inflow"
    ELSE IF t = "OUTFLOW" THEN "outflow"
    ELSE t

\* float(amt), with both fallbacks: an amount that does not parse counts 0.0
PaymentAmount(p) == IF p.amount.ok THEN p.amount.val ELSE 0

\* load_historical_data: the signed contribution of one payment to its day
SignedLoad(p) ==
    LET amt == PaymentAmount(p)
        ptype == LowerType(p.ptype)
    IN IF ptype = "inflow" THEN amt
       ELSE IF ptype = "outflow" THEN 0 - amt
       ELSE IF p.sign = "+" THEN amt
       ELSE IF p.sign = "-" THEN 0 - amt
       ELSE amt

\* generate_forecast: the signed contribution of one payment to the balance
SignedBalance(p) ==
    LET amt == PaymentAmount(p)
        ptype == LowerType(p.ptype)
    IN IF ptype = "inflow" THEN amt
       ELSE IF ptype = "outflow" THEN 0 - amt
       ELSE amt

\* load_historical_data: the keys of date_map
DateMapKeys(payments) ==
    { SafeDateParse(payments[i].date).day :
        i \in { j \in 1..Len(payments) : SafeDateParse(payments[j].date).ok } }

RECURSIVE DateMapAt_LastRecord(_, _)
\* date_map[d] when a record replaces the day's value instead of adding to it
DateMapAt_LastRecord(payments, d) ==
    IF payments = <<>> THEN 0
    ELSE LET p == payments[Len(payments)]
             parsed == SafeDateParse(p.date)
         IN IF parsed.ok /\ parsed.day = d THEN SignedLoad(p)
            ELSE DateMapAt_LastRecord(SubSeq(payments, 1, Len(payments) - 1), d)

RECURSIVE DateMapAt(_, _)
\* load_historical_data: date_map[d] after the loop over the payments
DateMapAt(payments, d) ==
    IF payments = <<>> THEN 0
    ELSE LET p == Head(payments)
             parsed == SafeDateParse(p.date)
         IN (IF parsed.ok /\ parsed.day = d THEN SignedLoad(p) ELSE 0)
            + DateMapAt(Tail(payments), d)

\* The forecast agent's state dictionary, as run_forecasting_agent builds it.
ForecastInitState(org) ==
    [org_id |-> org, error |-> Absent, current_step |-> "initialized",
     raised |-> FALSE, partial_history |-> FALSE,
     dates |-> <<>>, net_changes |-> <<>>, record_count |-> 0,
     training_samples |-> 0, validation_samples |-> 0,
     forecast_results |-> <<>>, has_output |-> FALSE, output_forecast |-> <<>>]

\* load_historical_data without the partial-history override
F_load_historical_data_NoOverride(fs, fetch, allow) ==
    IF fs.org_id # "ok"
    THEN [fs EXCEPT !.error = "missing org_id", !.current_step = "error"]
    ELSE IF ~fetch.ok
    THEN [fs EXCEPT !.error = "failed to fetch payments", !.current_step = "error"]
    ELSE IF fetch.payments = <<>>
    THEN [fs EXCEPT !.error = "no_payments", !.current_step = "error"]
    ELSE LET sorted_dates == SortedSeqOf(DateMapKeys(fetch.payments))
             record_count == Len(sorted_dates)
             net == [i \in 1..record_count |-> DateMapAt(fetch.payments, sorted_dates[i])]
         IN IF record_count < MIN_DAYS
            THEN [fs EXCEPT !.error = "Insufficient historical data",
                            !.current_step = "error"]
            ELSE [fs EXCEPT !.dates = sorted_dates,
                            !.net_changes = net,
                            !.record_count = record_count,
                            !.current_step = "data_loaded"]

\* ForecastingAgent.load_historical_data.  fetch = [ok, payments] is the
\* answer of GET /payments/org/{org_id}; allow is ALLOW_PARTIAL_HISTORY.
F_load_historical_data(fs, fetch, allow) ==
    IF fs.org_id # "ok"
    THEN [fs EXCEPT !.error = "missing org_id", !.current_step = "error"]
    ELSE IF ~fetch.ok
    THEN [fs EXCEPT !.error = "failed to fetch payments", !.current_step = "error"]
    ELSE IF fetch.payments = <<>>
    THEN [fs EXCEPT !.error = "no_payments", !.current_step = "error"]
    ELSE LET sorted_dates == SortedSeqOf(DateMapKeys(fetch.payments))
             record_count == Len(sorted_dates)
             net == [i \in 1..record_count |-> DateMapAt(fetch.payments, sorted_dates[i])]
         IN IF record_count < MIN_DAYS /\ ~allow
            THEN [fs EXCEPT !.error = "Insufficient historical data",
                            !.current_step = "error"]
            ELSE [fs EXCEPT !.partial_history = (record_count < MIN_DAYS),
                            !.dates = sorted_dates,
                            !.net_changes = net,
                            !.record_count = record_count,
                            !.current_step = "data_loaded"]

\* ForecastingAgent.analyze_seasonality (its statistics feed no later node)
F_analyze_seasonality(fs) ==
    IF fs.raised \/ fs.error # Absent THEN fs
    ELSE [fs EXCEPT !.current_step = "seasonality_analyzed"]

\* ForecastingAgent.prepare_features: the 80/20 split in temporal order
F_prepare_features(fs) ==
    IF fs.raised \/ fs.error # Absent THEN fs
    ELSE LET split_idx == (Len(fs.dates) * 8) \div 10
         IN [fs EXCEPT !.training_samples = split_idx,
                       !.validation_samples = Len(fs.dates) - split_idx,
                       !.current_step = "features_prepared"]

\* ForecastingAgent.train_model: fitting on an empty training split raises
F_train_model(fs) ==
    IF fs.raised \/ fs.error # Absent THEN fs
    ELSE IF fs.training_samples = 0 THEN [fs EXCEPT !.raised = TRUE]
    ELSE [fs EXCEPT !.current_step = "model_trained"]

\* generate_forecast: the balance the roll-forward starts from.  The state of
\* run_forecasting_agent has no opening_balance, so the sum starts at 0.
SeedBalance(fetch2, last_date) ==
    LET payments_all == IF fetch2.ok THEN fetch2.payments ELSE <<>>
        idx == { i \in 1..Len(payments_all) :
                   /\ SafeDateParse(payments_all[i].date).ok
                   /\ SafeDateParse(payments_all[i].date).day <= last_date }
    IN SumSeq([i \in 1..Len(payments_all) |->
                 IF i \in idx THEN SignedBalance(payments_all[i]) ELSE 0])

\* generate_forecast with a horizon that starts on the last historical date
F_generate_forecast_FromLastDate(fs, fetch2, pred) ==
    IF fs.raised \/ fs.error # Absent THEN fs
    ELSE LET last_date == fs.dates[Len(fs.dates)]
             seed == SeedBalance(fetch2, last_date)
             results == [k \in 1..ForecastDays |->
                           [date |-> Strftime(last_date + k - 1),
                            predicted_balance |-> seed + SumSeq(SubSeq(pred, 1, k)),
                            daily_change |-> pred[k]]]
         IN [fs EXCEPT !.forecast_results = results,
                       !.current_step = "forecast_generated"]

\* ForecastingAgent.generate_forecast.  pred[k] is the trained model's
\* predicted change of day k.
F_generate_forecast(fs, fetch2, pred) ==
    IF fs.raised \/ fs.error # Absent THEN fs
    ELSE LET last_date == fs.dates[Len(fs.dates)]
             seed == SeedBalance(fetch2, last_date)
             results == [k \in 1..ForecastDays |->
                           [date |-> Strftime(last_date + k),
                            predicted_balance |-> seed + SumSeq(SubSeq(pred, 1, k)),
                            daily_change |-> pred[k]]]
         IN [fs EXCEPT !.forecast_results = results,
                       !.current_step = "forecast_generated"]

\* ForecastingAgent.identify_drivers (informational; feeds no later node)
F_identify_drivers(fs) ==
    IF fs.raised \/ fs.error # Absent THEN fs
    ELSE [fs EXCEPT !.current_step = "drivers_identified"]

\* ForecastingAgent.prepare_output: on error the state comes back as it is,
\* with no 'output' key.
F_prepare_output(fs) ==
    IF fs.raised \/ fs.error # Absent THEN fs
    ELSE [fs EXCEPT !.has_output = TRUE,
                    !.output_forecast = fs.forecast_results,
                    !.current_step = "complete"]

\* The forecast graph: the seven nodes in edge order.
ForecastGraph(fs, fetch, allow, fetch2, pred) ==
    F_prepare_output(
      F_identify_drivers(
        F_generate_forecast(
          F_train_model(
            F_prepare_features(
              F_analyze_seasonality(
                F_load_historical_data(fs, fetch, allow)))),
          fetch2, pred)))

\* A dictionary handed to a caller: keys is the set of its keys.
EmptyDict == [keys |-> {}, status |-> Absent, message |-> Absent, forecast |-> <<>>]

\* run_forecasting_agent: result.get('output', {}).  raised = TRUE when an
\* exception leaves the call.
run_forecasting_agent(org, fetch, allow, fetch2, pred) ==
    LET result == ForecastGraph(ForecastInitState(org), fetch, allow, fetch2, pred)
    IN [raised |-> result.raised,
        final |-> result,
        output |-> IF result.has_output
                   THEN [keys |-> {"status", "forecast"}, status |-> "success",
                         message |-> Absent, forecast |-> result.output_forecast]
                   ELSE EmptyDict]


\* ===================================================================
\* The collision pipeline (Liquidity_and_Collision_Detection_Agent/agent.py)
\* ===================================================================

\* ----------------------------------------------------------------- text
\* str.lower(), one character
LowerChar(c) ==
    CASE c = "E" -> "e" [] c = "G" -> "g" [] c = "I" -> "i" [] c = "L" -> "l"
      [] c = "M" -> "m"
      [] c = "N" -> "n" [] c = "P" -> "p" [] c = "R" -> "r" [] c = "S" -> "s"
      [] c = "T" -> "t" [] OTHER -> c

\* str.lower()
Lower(s) == [i \in 1..Len(s) |-> LowerChar(s[i])]

\* kw in s, for two texts
IsSubstring(kw, s) ==
    \E i \in 1..(Len(s) - Len(kw) + 1) : SubSeq(s, i, i + Len(kw) - 1) = kw

RECURSIVE JoinSpace(_)
\* ' '.join(parts)
JoinSpace(parts) ==
    IF parts = <<>> THEN <<>>
    ELSE IF Len(parts) = 1 THEN parts[1]
    ELSE parts[1] \o <<" ">> \o JoinSpace(Tail(parts))

\* get_mandatory_expenses: mandatory_categories, in the order of the list
mandatory_categories ==
    << <<"p","a","y","r","o","l","l">>,
       <<"s","a","l","a","r","y">>,
       <<"r","e","n","t">>,
       <<"l","o","a","n">>,
       <<"e","m","f">>,
       <<"g","s","t">>,
       <<"t","a","x">>,
       <<"s","t","a","t","u","t","o","r","y">> >>

\* generate_mitigation: the categories whose bills are never deferred
non_deferrable ==
    { <<"p","a","y","r","o","l","l">>,
      <<"s","a","l","a","r","y">>,
      <<"s","t","a","t","u","t","o","r","y">>,
      <<"t","a","x">>,
      <<"g","s","t">> }

\* CollisionAgent._to_float on a value [ok, val]: the default when it does not parse
ToFloat(v, default) == IF v.ok THEN v.val ELSE default

\* A number that parses
Num(n) == [ok |-> TRUE, val |-> n]
\* A value that float() rejects
NotNum == [ok |-> FALSE, val |-> 0]

\* get_mandatory_expenses: any(cat in category for cat in mandatory_categories)
is_mandatory(category) ==
    \E k \in 1..Len(mandatory_categories) : IsSubstring(mandatory_categories[k], category)

\* get_mandatory_expenses: the category text of a bill, lower-cased
BillCategory(bill) == Lower(bill.category)

\* get_mandatory_expenses: the bills that reach a bucket, in the order of the list
MandatoryBills(bills) ==
    LET Keep(b) == ParseDate(b.due_date).ok /\ is_mandatory(BillCategory(b))
    IN SelectSeq(bills, Keep)

\* get_mandatory_expenses: the item appended to a bucket for a bill
BillItem(b) ==
    [bill_id |-> b.bill_id, category |-> BillCategory(b),
     amount |-> ToFloat(b.amount, 0),
     due_date |-> Strftime(ParseDate(b.due_date).day)]

RECURSIVE Dedup(_, _)
\* the categories of a bucket: each once, in order of first appearance
Dedup(seq, seen) ==
    IF seq = <<>> THEN <<>>
    ELSE IF Head(seq) \in seen THEN Dedup(Tail(seq), seen)
    ELSE <<Head(seq)>> \o Dedup(Tail(seq), seen \cup {Head(seq)})

\* get_mandatory_expenses: the dictionary due_key -> bucket
BuildMandatory(bills) ==
    LET kept == MandatoryBills(bills)
        items == [i \in 1..Len(kept) |-> BillItem(kept[i])]
        keys == { items[i].due_date : i \in 1..Len(items) }
    IN [k \in keys |->
          LET OfKey(it) == it.due_date = k
              mine == SelectSeq(items, OfKey)
          IN [total |-> SumSeq([i \in 1..Len(mine) |-> mine[i].amount]),
              items |-> mine,
              categories |-> Dedup([i \in 1..Len(mine) |-> mine[i].category], {})]]

\* sum(exp['total'] for exp in mandatory_expenses.values())
TotalMandatory(mand) ==
    LET keys == SortedSeqOf({ k.day : k \in DOMAIN mand })
    IN SumSeq([i \in 1..Len(keys) |-> mand[Strftime(keys[i])].total])

\* The empty dictionary of mandatory expenses
NoMandatory == [k \in {} |-> 0]

\* ------------------------------------------------------- detect_collisions
\* The key a forecast item is looked up under
ForecastKey(item) ==
    LET parsed == ParseDate(item.date)
    IN IF parsed.ok THEN Strftime(parsed.day) ELSE item.date

\* A lookup under a key no bucket has: every date reads 0
mandatory_for_date_NoBucket(mand, fkey) == 0

\* mandatory.get(fkey, {}).get('total', 0)
mandatory_for_date(mand, fkey) ==
    IF fkey \in DOMAIN mand THEN mand[fkey].total ELSE 0

\* detect_collisions: the days-from-now of a collision date
DaysFromNow(fkey) ==
    LET parsed == ParseDate(fkey)
    IN IF parsed.ok THEN parsed.day - Today ELSE 0

\* detect_collisions: whether a forecast item collides
Collides(item, mand, minimum) ==
    item.predicted_balance - mandatory_for_date(mand, ForecastKey(item)) < minimum

\* abs()
Abs(x) == IF x < 0 THEN 0 - x ELSE x

\* detect_collisions: the collision dictionary of a colliding forecast item.
\* obj is the identity of the dictionary object (its rank among the
\* collisions as they are found); the fields of the later passes are there
\* from the start with has_severity / has_mitigation = FALSE.
NewCollision(item, mand, minimum, credit, obj) ==
    LET fkey == ForecastKey(item)
        mfd == mandatory_for_date(mand, fkey)
        bam == item.predicted_balance - mfd
        deficit == minimum - bam
    IN [obj |-> obj,
        collision_date |-> fkey,
        predicted_balance |-> item.predicted_balance,
        mandatory_expenses |-> mfd,
        balance_after_mandatory |-> bam,
        deficit_amount |-> Abs(deficit),
        credit_can_cover |-> (deficit <= credit),
        days_from_now |-> DaysFromNow(fkey),
        expense_categories |-> IF fkey \in DOMAIN mand THEN mand[fkey].categories ELSE <<>>,
        bills |-> IF fkey \in DOMAIN mand THEN mand[fkey].items ELSE <<>>,
        has_severity |-> FALSE, severity_score |-> 0, severity |-> Absent,
        days_to_resolve |-> 0,
        has_mitigation |-> FALSE, mitigation_levers |-> <<>>,
        total_mitigation_potential |-> 0, can_be_mitigated |-> FALSE]

RECURSIVE DetectLoop(_, _, _, _, _)
\* detect_collisions: the loop over the forecast, acc the collisions so far
DetectLoop(fc, mand, minimum, credit, acc) ==
    IF fc = <<>> THEN acc
    ELSE IF Collides(Head(fc), mand, minimum)
    THEN DetectLoop(Tail(fc), mand, minimum, credit,
                    Append(acc, NewCollision(Head(fc), mand, minimum, credit, Len(acc) + 1)))
    ELSE DetectLoop(Tail(fc), mand, minimum, credit, acc)


\* -------------------------------------------------------- analyze_severity
\* max(0, 100 - (days_away * 2)), in points
proximity_score(days_away) == Max(0, 100 - (days_away * 2))

\* min(100, deficit / 1000000000 * 100), in units of 1/100000 point
\* (a deficit of 10000000 units of 100 is 1e9, which is 100 points)
magnitude_score(deficit) == Min(10000000, deficit)

\* The credit component with the two cases exchanged
credit_score_Inverted(credit_can_cover) == IF credit_can_cover THEN 50 ELSE 0

\* 0 if credit_can_cover else 50, in points
credit_score(credit_can_cover) == IF credit_can_cover THEN 0 ELSE 50

\* The weighted sum with the weights of proximity and credit exchanged
SeverityRaw_SwappedWeights(c) ==
    (proximity_score(c.days_from_now) * 500000)
    + (magnitude_score(c.deficit_amount) * 7)
    + (credit_score(c.credit_can_cover) * 800000)

\* proximity * 0.4 + magnitude * 0.35 + credit * 0.25, in units of 1/2000000 point
SeverityRaw(c) ==
    (proximity_score(c.days_from_now) * 800000)
    + (magnitude_score(c.deficit_amount) * 7)
    + (credit_score(c.credit_can_cover) * 500000)

\* The label thresholds 80 / 60 / 40 on the score before rounding
SeverityLabel(raw) ==
    IF raw >= 160000000 THEN "critical"
    ELSE IF raw >= 120000000 THEN "high"
    ELSE IF raw >= 80000000 THEN "medium"
    ELSE "low"

\* round(severity_score, 2), in hundredths of a point (ties go to the even digit)
Round2(raw) ==
    LET q == raw \div 20000
        r == raw % 20000
    IN IF r > 10000 \/ (r = 10000 /\ q % 2 = 1) THEN q + 1 ELSE q

\* analyze_severity: the fields it sets on one collision
Scored(c) ==
    [c EXCEPT !.has_severity = TRUE,
              !.severity_score = Round2(SeverityRaw(c)),
              !.severity = SeverityLabel(SeverityRaw(c)),
              !.days_to_resolve = Max(1, c.days_from_now - 2)]

RECURSIVE StableDescFrom(_, _)
StableDescFrom(keys, remaining) ==
    IF remaining = {} THEN <<>>
    ELSE LET i == CHOOSE x \in remaining :
                    \A y \in remaining :
                        keys[x] > keys[y] \/ (keys[x] = keys[y] /\ x <= y)
         IN <<i>> \o StableDescFrom(keys, remaining \ {i})

\* list.sort(key=..., reverse=True): the positions of the entries in the
\* order the sort leaves them, largest key first, equal keys in their old order
StableDescOrder(keys) == StableDescFrom(keys, 1..Len(keys))

\* The sort without reverse=True: smallest severity_score first
SortBySeverityAscending(cs) ==
    LET order == StableDescOrder([i \in 1..Len(cs) |-> 0 - cs[i].severity_score])
    IN [i \in 1..Len(cs) |-> cs[order[i]]]

\* collisions.sort(key=lambda x: x['severity_score'], reverse=True)
SortBySeverity(cs) ==
    LET order == StableDescOrder([i \in 1..Len(cs) |-> cs[i].severity_score])
    IN [i \in 1..Len(cs) |-> cs[order[i]]]

\* analyze_severity: the collision list it leaves in the state
AnalyzeSeverity(cs) == SortBySeverity([i \in 1..Len(cs) |-> Scored(cs[i])])


\* ------------------------------------------------------ generate_mitigation
\* An invoice: [status, remaining: [ok, val], customer_id, due_date: raw date]
\* A customer: [customer_id, reliability: [ok, val]], reliability in tenths

\* Lever 1: whether an invoice counts for the collision of date coll
InvoiceCounts(inv, coll_date) ==
    LET due_parsed == ParseDate(inv.due_date)
        coll_parsed == ParseDate(coll_date)
    IN /\ inv.status \in {"open", "partial", "unpaid"}
       /\ due_parsed.ok /\ coll_parsed.ok
       /\ due_parsed.day < coll_parsed.day

\* Lever 1: the reliability of the first customer with that id, 0.5 when
\* there is none or when the score does not parse (in tenths)
Reliability(customer_data, customer_id) ==
    LET hits == { i \in 1..Len(customer_data) : customer_data[i].customer_id = customer_id }
    IN IF hits = {} THEN 5
       ELSE LET first == CHOOSE i \in hits : \A j \in hits : i <= j
            IN ToFloat(customer_data[first].reliability, 5)

\* Lever 1: the entry appended to top_customers_for_collection.
\* collection_probability = reliability * 0.9, in hundredths.
CollectionTarget(inv, customer_data) ==
    LET reliability == Reliability(customer_data, inv.customer_id)
    IN [customer_id |-> inv.customer_id,
        amount |-> ToFloat(inv.remaining, 0),
        due_date |-> inv.due_date,
        reliability_score |-> reliability,
        collection_probability |-> reliability * 9]

\* Lever 1: top_customers_for_collection left in the order of the invoices
TopCustomers_Unsorted(invoice_data, customer_data, coll_date) ==
    LET Counts(inv) == InvoiceCounts(inv, coll_date)
        counted == SelectSeq(invoice_data, Counts)
    IN [i \in 1..Len(counted) |-> CollectionTarget(counted[i], customer_data)]

\* Lever 1: top_customers_for_collection after its sort
TopCustomers(invoice_data, customer_data, coll_date) ==
    LET Counts(inv) == InvoiceCounts(inv, coll_date)
        counted == SelectSeq(invoice_data, Counts)
        targets == [i \in 1..Len(counted) |-> CollectionTarget(counted[i], customer_data)]
        order == StableDescOrder([i \in 1..Len(targets) |->
                                    targets[i].amount * targets[i].collection_probability])
    IN [i \in 1..Len(targets) |-> targets[order[i]]]

\* seq[:5]
FirstFive(seq) == SubSeq(seq, 1, Min(5, Len(seq)))

\* Lever 1: accelerate_potential
AcceleratePotential(invoice_data, customer_data, coll_date) ==
    LET top == TopCustomers(invoice_data, customer_data, coll_date)
    IN SumSeq([i \in 1..Len(top) |-> top[i].amount])

\* Lever 2 with every bill of the bucket taken as deferrable
DeferrableBills_All(c) == c.bills

\* Lever 2: the bills of the collision that may be deferred
DeferrableBills(c) ==
    LET Deferrable(bill) == Lower(bill.category) \notin non_deferrable
    IN SelectSeq(c.bills, Deferrable)

\* Lever 2: defer_potential
DeferPotential(c) ==
    LET d == DeferrableBills(c)
    IN SumSeq([i \in 1..Len(d) |-> d[i].amount])

\* Lever 4: 'loan' in ' '.join(str(x).lower() for x in expense_categories)
MentionsLoan(c) ==
    IsSubstring(<<"l","o","a","n">>,
                JoinSpace([i \in 1..Len(c.expense_categories) |->
                             Lower(c.expense_categories[i])]))

\* Lever 4: mandatory_expenses * 0.3
LoanPotential(c) == (c.mandatory_expenses * 3) \div 10

\* A lever dictionary; success_probability is in twentieths
Lever(name, priority, potential, days, probability, targets) ==
    [lever |-> name, priority |-> priority, potential_amount |-> potential,
     implementation_time_days |-> days, success_probability |-> probability,
     target_customers |-> targets]

\* The levers of one collision listed by expected value, largest first
MitigationLevers_ByExpectedValue(c, invoice_data, customer_data, available) ==
    LET accelerate_potential == AcceleratePotential(invoice_data, customer_data, c.collision_date)
        fixed == (IF accelerate_potential > 0
                  THEN << Lever("accelerate_collections", 1, accelerate_potential, 1, 15,
                                FirstFive(TopCustomers(invoice_data, customer_data,
                                                       c.collision_date))) >>
                  ELSE <<>>)
                 \o (IF DeferPotential(c) > 0
                     THEN << Lever("defer_payables", 2, DeferPotential(c), 1, 12, <<>>) >>
                     ELSE <<>>)
                 \o (IF 2 * available > c.deficit_amount
                     THEN << Lever("draw_credit_line", 3, available, 0, 19, <<>>) >>
                     ELSE <<>>)
                 \o (IF MentionsLoan(c) /\ LoanPotential(c) > 0
                     THEN << Lever("restructure_loan", 4, LoanPotential(c), 3, 10, <<>>) >>
                     ELSE <<>>)
        order == StableDescOrder([k \in 1..Len(fixed) |->
                    fixed[k].potential_amount * fixed[k].success_probability])
    IN [k \in 1..Len(fixed) |-> fixed[order[k]]]

\* The levers of one collision with the credit lever capped at the deficit
MitigationLevers_CreditCapped(c, invoice_data, customer_data, available) ==
    LET accelerate_potential == AcceleratePotential(invoice_data, customer_data, c.collision_date)
    IN (IF accelerate_potential > 0
        THEN << Lever("accelerate_collections", 1, accelerate_potential, 1, 15,
                      FirstFive(TopCustomers(invoice_data, customer_data, c.collision_date))) >>
        ELSE <<>>)
       \o (IF DeferPotential(c) > 0
           THEN << Lever("defer_payables", 2, DeferPotential(c), 1, 12, <<>>) >>
           ELSE <<>>)
       \o (IF 2 * available > c.deficit_amount
           THEN << Lever("draw_credit_line", 3, Min(available, c.deficit_amount), 0, 19, <<>>) >>
           ELSE <<>>)
       \o (IF MentionsLoan(c) /\ LoanPotential(c) > 0
           THEN << Lever("restructure_loan", 4, LoanPotential(c), 3, 10, <<>>) >>
           ELSE <<>>)

\* The levers of one collision when the credit line is offered only if it is
\* more than twice the deficit
MitigationLevers_CreditTwiceDeficit(c, invoice_data, customer_data, available) ==
    LET accelerate_potential == AcceleratePotential(invoice_data, customer_data, c.collision_date)
    IN (IF accelerate_potential > 0
        THEN << Lever("accelerate_collections", 1, accelerate_potential, 1, 15,
                      FirstFive(TopCustomers(invoice_data, customer_data, c.collision_date))) >>
        ELSE <<>>)
       \o (IF DeferPotential(c) > 0
           THEN << Lever("defer_payables", 2, DeferPotential(c), 1, 12, <<>>) >>
           ELSE <<>>)
       \o (IF available > 2 * c.deficit_amount
           THEN << Lever("draw_credit_line", 3, available, 0, 19, <<>>) >>
           ELSE <<>>)
       \o (IF MentionsLoan(c) /\ LoanPotential(c) > 0
           THEN << Lever("restructure_loan", 4, LoanPotential(c), 3, 10, <<>>) >>
           ELSE <<>>)

\* generate_mitigation: the levers of one collision, in the order they are appended
MitigationLevers(c, invoice_data, customer_data, available) ==
    LET deficit == c.deficit_amount
        accelerate_potential == AcceleratePotential(invoice_data, customer_data, c.collision_date)
        defer_potential == DeferPotential(c)
        loan_emi_deferrable == LoanPotential(c)
    IN (IF accelerate_potential > 0
        THEN << Lever("accelerate_collections", 1, accelerate_potential, 1, 15,
                      FirstFive(TopCustomers(invoice_data, customer_data, c.collision_date))) >>
        ELSE <<>>)
       \o
       (IF defer_potential > 0
        THEN << Lever("defer_payables", 2, defer_potential, 1, 12, <<>>) >>
        ELSE <<>>)
       \o
       (IF 2 * available > deficit
        THEN << Lever("draw_credit_line", 3, available, 0, 19, <<>>) >>
        ELSE <<>>)
       \o
       (IF MentionsLoan(c) /\ loan_emi_deferrable > 0
        THEN << Lever("restructure_loan", 4, loan_emi_deferrable, 3, 10, <<>>) >>
        ELSE <<>>)

\* sum(potential_amount * success_probability), in twentieths of a unit
TotalPotential(levers) ==
    SumSeq([i \in 1..Len(levers) |->
              levers[i].potential_amount * levers[i].success_probability])

\* The coverage bar with > in place of >=
CanBeMitigatedStrict(total_potential, deficit) == total_potential > deficit * 14

\* total_potential >= deficit * 0.7, both sides in twentieths
CanBeMitigated(total_potential, deficit) == total_potential >= deficit * 14

\* generate_mitigation: the fields it sets on one collision
Mitigated(c, invoice_data, customer_data, available) ==
    LET levers == MitigationLevers(c, invoice_data, customer_data, available)
        total_potential == TotalPotential(levers)
    IN [c EXCEPT !.has_mitigation = TRUE,
                 !.mitigation_levers = levers,
                 !.total_mitigation_potential = total_potential,
                 !.can_be_mitigated = CanBeMitigated(total_potential, c.deficit_amount)]


\* ----------------------------------------------------------- prepare_output
\* No emergency plan (Python's None)
NoPlan ==
    [present |-> FALSE, action_date |-> NoDateField, deadlines |-> <<>>,
     expected_recovery |-> 0, expected_deferral |-> 0, amount |-> 0]

\* (parsed - timedelta(days=n)).strftime(...) if parsed else None
DateMinus(date, n) ==
    LET parsed == ParseDate(date)
    IN IF parsed.ok THEN Strftime(parsed.day - n) ELSE NoDateField

\* prepare_output: expected_recovery, the amounts of all target customers
ExpectedRecovery(c) ==
    SumSeq([i \in 1..Len(c.mitigation_levers) |->
              SumSeq([j \in 1..Len(c.mitigation_levers[i].target_customers) |->
                        c.mitigation_levers[i].target_customers[j].amount])])

\* prepare_output: expected_deferral, the potential of the defer_payables levers
ExpectedDeferral(c) ==
    SumSeq([i \in 1..Len(c.mitigation_levers) |->
              IF c.mitigation_levers[i].lever = "defer_payables"
              THEN c.mitigation_levers[i].potential_amount ELSE 0])

\* The plan drawn up for the first entry whatever its label
EmergencyPlan_AnyLabel(cs, available) ==
    IF cs # <<>>
    THEN [present |-> TRUE,
          action_date |-> DateMinus(cs[1].collision_date, 2),
          deadlines |-> << DateMinus(cs[1].collision_date, 1),
                           cs[1].collision_date,
                           DateMinus(cs[1].collision_date, 1) >>,
          expected_recovery |-> ExpectedRecovery(cs[1]),
          expected_deferral |-> ExpectedDeferral(cs[1]),
          amount |-> available]
    ELSE NoPlan

\* prepare_output: the emergency plan, from the first entry of the list
EmergencyPlan(cs, available) ==
    IF cs # <<>> /\ cs[1].severity \in {"critical", "high"}
    THEN [present |-> TRUE,
          action_date |-> DateMinus(cs[1].collision_date, 2),
          deadlines |-> << DateMinus(cs[1].collision_date, 1),
                           cs[1].collision_date,
                           DateMinus(cs[1].collision_date, 1) >>,
          expected_recovery |-> ExpectedRecovery(cs[1]),
          expected_deferral |-> ExpectedDeferral(cs[1]),
          amount |-> available]
    ELSE NoPlan

\* The state before prepare_output has run: no 'output' key
NoOutput ==
    [keys |-> {}, status |-> Absent, message |-> Absent,
     total_collisions_detected |-> 0, first_collision |-> <<>>,
     collisions_91d |-> <<>>, emergency_action_plan |-> NoPlan,
     immediate_action |-> Absent]

\* prepare_output: the error report
ErrorReport(msg) ==
    [NoOutput EXCEPT !.keys = {"status", "message"},
                     !.status = "error", !.message = msg]

\* The head of the list after the sort, taken for the first collision
FirstCollisionObject_TopOfList(cs, first) ==
    IF cs = <<>> THEN <<>> ELSE << cs[1] >>

\* state.get('first_collision'): the dictionary object detect_collisions kept,
\* as a list of no or one entry
FirstCollisionObject(cs, first) ==
    LET IsFirst(c) == c.obj = first
    IN SelectSeq(cs, IsFirst)

\* The success report that calls for action only when there is an emergency plan
SuccessReport_UrgentIfPlan(cs, count, first, available) ==
    [keys |-> {"status", "agent_id", "org_id", "timestamp", "current_position",
               "collision_analysis", "mandatory_expenses_91d",
               "emergency_action_plan", "recommendation"},
     status |-> "success", message |-> Absent,
     total_collisions_detected |-> count,
     first_collision |-> FirstCollisionObject(cs, first),
     collisions_91d |-> cs,
     emergency_action_plan |-> EmergencyPlan(cs, available),
     immediate_action |-> IF EmergencyPlan(cs, available).present
                          THEN "URGENT" ELSE "MONITOR"]

\* prepare_output: the success report
SuccessReport(cs, count, first, available) ==
    [keys |-> {"status", "agent_id", "org_id", "timestamp", "current_position",
               "collision_analysis", "mandatory_expenses_91d",
               "emergency_action_plan", "recommendation"},
     status |-> "success", message |-> Absent,
     total_collisions_detected |-> count,
     first_collision |-> FirstCollisionObject(cs, first),
     collisions_91d |-> cs,
     emergency_action_plan |-> EmergencyPlan(cs, available),
     immediate_action |-> IF count > 0 THEN "URGENT" ELSE "MONITOR"]

\* ===================================================================
\* What the backend may answer
\* ===================================================================
Pay(day, amt, type) ==
    [date |-> RawDate(day), amount |-> Num(amt), ptype |-> type, sign |-> "none"]

\* Payment lists of the backend: none, one day, two recent days returned out
\* of order with two records on one day, two days ten weeks back with a
\* record of another type that carries a sign and a record whose date does
\* not parse, a large outflow yesterday, two days that end the day before
\* yesterday, and a day whose only record has an amount that does not parse.
PaymentScenarios ==
    { <<>>,
      << Pay(Today - 1, 20000, "inflow") >>,
      << Pay(Today - 1, 5000, "outflow"), Pay(Today - 2, 20000, "inflow"),
         Pay(Today - 1, 5000, "outflow") >>,
      << Pay(Today - 71, 20000, "Inflow"),
         [date |-> RawDate(Today - 70), amount |-> Num(10000), ptype |-> "other",
          sign |-> "-"],
         [date |-> BadDate, amount |-> Num(500), ptype |-> "inflow", sign |-> "none"] >>,
      << Pay(Today - 2, 10000, "inflow"), Pay(Today - 1, 7845720, "outflow") >>,
      << Pay(Today - 3, 30000, "inflow"), Pay(Today - 2, 10000, "OUTFLOW") >>,
      << Pay(Today - 5, 20000, "inflow"),
         [date |-> RawDate(Today - 4), amount |-> NotNum, ptype |-> "inflow",
          sign |-> "none"] >> }

\* Answers of a payments fetch
PaymentFetches ==
    { [ok |-> FALSE, payments |-> <<>>] }
    \cup { [ok |-> TRUE, payments |-> p] : p \in PaymentScenarios }

\* What the trained model may predict for one day
PredictedChanges == { 0 - 10000000, 0 }

\* Answers of GET /organizations/{org_id}/summary
OrgSummaries ==
    { [opening_balance |-> 0, has_minimum |-> FALSE, minimum_balance_required |-> 0,
       credit_line_limit |-> 0, credit_line_utilized |-> 0],
      [opening_balance |-> 10000, has_minimum |-> TRUE, minimum_balance_required |-> 20000,
       credit_line_limit |-> 20000, credit_line_utilized |-> 6000],
      [opening_balance |-> 10000, has_minimum |-> TRUE, minimum_balance_required |-> 20000,
       credit_line_limit |-> 30000000, credit_line_utilized |-> 0] }

Bill(id, cat, due, amt) ==
    [bill_id |-> id, category |-> cat, due_date |-> due, amount |-> Num(amt)]

\* Bill lists of the backend
BillScenarios ==
    { <<>>,
      << Bill(1, <<"P","a","y","r","o","l","l">>, RawDate(Today), 7000),
         Bill(2, <<"g","s","t">>, RawDate(Today), 2000),
         Bill(3, <<"s","a","l","a","r","y">>, RawDate(Today + 1), 5000),
         Bill(4, <<"r","e","n","t">>, RawDate(Today + 1), 3000) >>,
      << Bill(1, <<"l","o","a","n"," ","e","m","i">>, RawDate(Today + 1), 20000),
         Bill(2, <<"m","a","r","k","e","t","i","n","g">>, RawDate(Today + 1), 500),
         Bill(3, <<"o","f","f","i","c","e"," ","r","e","n","t">>, RawDate(Today + 1), 3000) >>,
      << Bill(1, <<"r","e","n","t">>, BadDate, 4000),
         Bill(2, <<"t","a","x">>, RawDate(Today - 68), 1000),
         Bill(3, <<"E","M","I">>, RawDate(Today - 68), 6000) >> }

Invoice(status, amt, cust, due) ==
    [status |-> status, remaining |-> Num(amt), customer_id |-> cust, due_date |-> due]

\* Customer and invoice lists of the backend
MitigationData ==
    { [customer_data |-> <<>>, invoice_data |-> <<>>],
      [customer_data |-> << [customer_id |-> 1, reliability |-> Num(9)],
                            [customer_id |-> 2, reliability |-> NotNum] >>,
       invoice_data |-> << Invoice("open", 4000, 2, RawDate(Today - 5)),
                           Invoice("paid", 9000, 1, RawDate(Today - 5)),
                           Invoice("partial", 3000, 1, RawDate(Today - 80)),
                           Invoice("unpaid", 7000000, 3, RawDate(Today)),
                           Invoice("open", 1000, 1, BadDate),
                           Invoice("open", 2000, 1, RawDate(Today - 6)),
                           Invoice("open", 5000, 2, RawDate(Today - 7)),
                           Invoice("unpaid", 6000, 3, RawDate(Today - 8)) >>] }


\* ===================================================================
\* The run of the collision graph
\* ===================================================================
VARIABLES
    pc,                  \* the node that runs next; "END"; "raised" when an exception left the graph
    org_id,              \* state['org_id']: "ok", "falsy" (0 or None) or Absent
    error,               \* state['error'], Absent when the key is not set
    current_step,        \* state['current_step']
    current_balance,     \* state['current_balance']
    minimum_balance,     \* state['minimum_balance']
    forecast,            \* state['forecast']
    mandatory_expenses,  \* state['mandatory_expenses']
    total_mandatory_91d, \* state['total_mandatory_91d']
    available_credit,    \* state['available_credit']
    collisions,          \* state['collisions']
    collision_count,     \* state['collision_count']
    first_collision,     \* state['first_collision']: the obj of that dictionary, 0 for None
    output,              \* state['output']
    forecast_call,       \* history: what run_forecasting_agent did in this run
    fetch_failed,        \* history: the non-fatal fetches that failed in this run
    answered,            \* history: the backend's answers, org_data and bills_detail
    conc                 \* two runs served by one process: the module's graph cache,
                         \* the agent instances and each run's own state

\* The state dictionary of the graph
state == << org_id, error, current_step, current_balance, minimum_balance, forecast,
            mandatory_expenses, total_mandatory_91d, available_credit, collisions,
            collision_count, first_collision, output >>

vars == << pc, state, forecast_call, fetch_failed, answered, conc >>

\* The forecast agent has not been called
NotCalled ==
    [called |-> FALSE, raised |-> FALSE, error |-> Absent, output |-> EmptyDict,
     fetch |-> [ok |-> FALSE, payments |-> <<>>], allow |-> FALSE,
     fetch2 |-> [ok |-> FALSE, payments |-> <<>>],
     loaded |-> ForecastInitState(Absent), final |-> ForecastInitState(Absent)]

\* Nothing has been fetched
NothingFetched ==
    [org_data |-> [opening_balance |-> 0, has_minimum |-> FALSE,
                   minimum_balance_required |-> 0, credit_line_limit |-> 0,
                   credit_line_utilized |-> 0],
     has_org_data |-> FALSE, bills_detail |-> <<>>, has_bills |-> FALSE,
     customer_data |-> <<>>, invoice_data |-> <<>>]

\* The process serves no second run
NoConcurrentRuns ==
    [world |-> <<>>, cache |-> 0, coll_agents |-> 0, agents |-> <<>>, run |-> <<>>,
     crossed |-> FALSE]

\* The callers build {"org_id": org_id, "current_step": "initialized"}; a state
\* without the key is a caller that passes none.  Keys that are not set read
\* as the default of the state.get(...) that reads them.
Init ==
    /\ pc = "get_current_balance"
    /\ org_id \in {"ok", "falsy", Absent}
    /\ error = Absent
    /\ current_step = "initialized"
    /\ current_balance = 0
    /\ minimum_balance = 0
    /\ forecast = <<>>
    /\ mandatory_expenses = NoMandatory
    /\ total_mandatory_91d = 0
    /\ available_credit = 0
    /\ collisions = <<>>
    /\ collision_count = 0
    /\ first_collision = 0
    /\ output = NoOutput
    /\ forecast_call = NotCalled
    /\ fetch_failed = {}
    /\ answered = NothingFetched
    /\ conc = NoConcurrentRuns

\* get_current_balance: one payment's part of inflows - outflows
SignedCurrent(p) ==
    LET amt == PaymentAmount(p)
        ptype == LowerType(p.ptype)
    IN IF ptype = "inflow" THEN amt
       ELSE IF ptype = "outflow" THEN 0 - amt
       ELSE amt

\* get_current_balance: opening_balance + inflows - outflows
CurrentBalance(opening, payments) ==
    opening + SumSeq([i \in 1..Len(payments) |-> SignedCurrent(payments[i])])

\* org_data.get('minimum_balance_required', 500000)
MinimumBalance(summary) ==
    IF summary.has_minimum THEN summary.minimum_balance_required ELSE 5000

\* CollisionAgent.get_current_balance
get_current_balance ==
    /\ pc = "get_current_balance"
    /\ UNCHANGED conc
    /\ IF org_id = Absent
       THEN \* state['org_id'] is read before the try block
            /\ pc' = "raised"
            /\ UNCHANGED << state, forecast_call, fetch_failed, answered >>
       ELSE /\ pc' = "get_forecast"
            /\ \/ \* a fetch raises: the except branch
                  /\ error' = "balance fetch failed"
                  /\ UNCHANGED << current_step, current_balance, minimum_balance, answered >>
               \/ \E summary \in OrgSummaries, payments \in PaymentScenarios :
                    /\ current_balance' = CurrentBalance(summary.opening_balance, payments)
                    /\ minimum_balance' = MinimumBalance(summary)
                    /\ current_step' = "balance_fetched"
                    /\ answered' = [answered EXCEPT !.org_data = summary,
                                                  !.has_org_data = TRUE]
                    /\ UNCHANGED error
            /\ UNCHANGED << org_id, forecast, mandatory_expenses, total_mandatory_91d,
                            available_credit, collisions, collision_count,
                            first_collision, output, forecast_call, fetch_failed >>

\* forecast_output.get('forecast') or forecast_output.get('forecast_results') or []
ForecastData(forecast_output) ==
    IF "forecast" \in forecast_output.keys THEN forecast_output.forecast ELSE <<>>

\* CollisionAgent.get_forecast
get_forecast ==
    /\ pc = "get_forecast"
    /\ UNCHANGED conc
    /\ pc' = "get_mandatory_expenses"
    /\ IF error # Absent
       THEN UNCHANGED << state, forecast_call, fetch_failed, answered >>
       ELSE \E fetch \in PaymentFetches, allow \in BOOLEAN, again \in BOOLEAN,
               pred \in [1..ForecastDays -> PredictedChanges] :
              LET fetch2 == IF again THEN fetch ELSE [ok |-> FALSE, payments |-> <<>>]
                  call == run_forecasting_agent(org_id, fetch, allow, fetch2, pred)
              IN /\ forecast_call' = [called |-> TRUE, raised |-> call.raised,
                                      error |-> call.final.error, output |-> call.output,
                                      fetch |-> fetch, allow |-> allow, fetch2 |-> fetch2,
                                      loaded |-> F_load_historical_data(
                                                   ForecastInitState(org_id), fetch, allow),
                                      final |-> call.final]
                 /\ IF call.raised
                    THEN /\ error' = "forecast agent raised"
                         /\ UNCHANGED << forecast, current_step >>
                    ELSE /\ forecast' = ForecastData(call.output)
                         /\ current_step' = "forecast_retrieved"
                         /\ UNCHANGED error
                 /\ UNCHANGED << org_id, current_balance, minimum_balance,
                                 mandatory_expenses, total_mandatory_91d, available_credit,
                                 collisions, collision_count, first_collision, output,
                                 fetch_failed, answered >>

\* get_mandatory_expenses whose except branch sets the error sentinel, as
\* get_current_balance's does
get_mandatory_expenses_Fatal ==
    /\ pc = "get_mandatory_expenses"
    /\ UNCHANGED conc
    /\ pc' = "get_credit_limits"
    /\ IF error # Absent
       THEN UNCHANGED << state, forecast_call, fetch_failed, answered >>
       ELSE /\ \/ /\ error' = "mandatory expenses fetch failed"
                  /\ fetch_failed' = fetch_failed \cup {"mandatory_expenses"}
                  /\ UNCHANGED << mandatory_expenses, total_mandatory_91d, current_step,
                                  answered >>
               \/ \E bills \in BillScenarios :
                    /\ mandatory_expenses' = BuildMandatory(bills)
                    /\ total_mandatory_91d' = TotalMandatory(BuildMandatory(bills))
                    /\ current_step' = "mandatory_expenses_retrieved"
                    /\ answered' = [answered EXCEPT !.bills_detail = bills,
                                                  !.has_bills = TRUE]
                    /\ UNCHANGED << error, fetch_failed >>
            /\ UNCHANGED << org_id, current_balance, minimum_balance, forecast,
                            available_credit, collisions, collision_count,
                            first_collision, output, forecast_call >>

\* CollisionAgent.get_mandatory_expenses
get_mandatory_expenses ==
    /\ pc = "get_mandatory_expenses"
    /\ UNCHANGED conc
    /\ pc' = "get_credit_limits"
    /\ IF error # Absent
       THEN UNCHANGED << state, forecast_call, fetch_failed, answered >>
       ELSE /\ \/ \* a fetch raises: the except branch
                  /\ mandatory_expenses' = NoMandatory
                  /\ fetch_failed' = fetch_failed \cup {"mandatory_expenses"}
                  /\ UNCHANGED << total_mandatory_91d, current_step, answered >>
               \/ \E bills \in BillScenarios :
                    /\ mandatory_expenses' = BuildMandatory(bills)
                    /\ total_mandatory_91d' = TotalMandatory(BuildMandatory(bills))
                    /\ current_step' = "mandatory_expenses_retrieved"
                    /\ answered' = [answered EXCEPT !.bills_detail = bills,
                                                  !.has_bills = TRUE]
                    /\ UNCHANGED fetch_failed
            /\ UNCHANGED << org_id, error, current_balance, minimum_balance, forecast,
                            available_credit, collisions, collision_count,
                            first_collision, output, forecast_call >>

\* get_credit_limits without its check of the error sentinel
get_credit_limits_Unguarded ==
    /\ pc = "get_credit_limits"
    /\ UNCHANGED conc
    /\ pc' = "detect_collisions"
    /\ \/ /\ available_credit' = 0
          /\ fetch_failed' = fetch_failed \cup {"credit_limits"}
          /\ UNCHANGED current_step
       \/ \E summary \in OrgSummaries :
            /\ available_credit' = summary.credit_line_limit - summary.credit_line_utilized
            /\ current_step' = "credit_limits_retrieved"
            /\ UNCHANGED fetch_failed
    /\ UNCHANGED << org_id, error, current_balance, minimum_balance, forecast,
                    mandatory_expenses, total_mandatory_91d, collisions,
                    collision_count, first_collision, output, forecast_call, answered >>

\* CollisionAgent.get_credit_limits
get_credit_limits ==
    /\ pc = "get_credit_limits"
    /\ UNCHANGED conc
    /\ pc' = "detect_collisions"
    /\ IF error # Absent
       THEN UNCHANGED << state, forecast_call, fetch_failed, answered >>
       ELSE /\ \/ \* the fetch raises: the except branch
                  /\ available_credit' = 0
                  /\ fetch_failed' = fetch_failed \cup {"credit_limits"}
                  /\ UNCHANGED current_step
               \/ \E summary \in OrgSummaries :
                    /\ available_credit' = summary.credit_line_limit - summary.credit_line_utilized
                    /\ current_step' = "credit_limits_retrieved"
                    /\ UNCHANGED fetch_failed
            /\ UNCHANGED << org_id, error, current_balance, minimum_balance, forecast,
                            mandatory_expenses, total_mandatory_91d, collisions,
                            collision_count, first_collision, output, forecast_call, answered >>

\* detect_collisions: the list of collisions, in forecast order
DetectCollisions(fc, mand, minimum, credit) == DetectLoop(fc, mand, minimum, credit, <<>>)

\* CollisionAgent.detect_collisions
detect_collisions ==
    /\ pc = "detect_collisions"
    /\ UNCHANGED conc
    /\ pc' = "analyze_severity"
    /\ IF error # Absent
       THEN UNCHANGED << state, forecast_call, fetch_failed, answered >>
       ELSE LET found == DetectCollisions(forecast, mandatory_expenses,
                                          minimum_balance, available_credit)
            IN /\ collisions' = found
               /\ collision_count' = Len(found)
               /\ first_collision' = IF found # <<>> THEN found[1].obj ELSE 0
               /\ current_step' = "collisions_detected"
               /\ UNCHANGED << org_id, error, current_balance, minimum_balance, forecast,
                               mandatory_expenses, total_mandatory_91d, available_credit,
                               output, forecast_call, fetch_failed, answered >>

\* CollisionAgent.analyze_severity
analyze_severity ==
    /\ pc = "analyze_severity"
    /\ UNCHANGED conc
    /\ pc' = "generate_mitigation"
    /\ IF error # Absent
       THEN UNCHANGED << state, forecast_call, fetch_failed, answered >>
       ELSE /\ collisions' = AnalyzeSeverity(collisions)
            /\ current_step' = "severity_analyzed"
            /\ UNCHANGED << org_id, error, current_balance, minimum_balance, forecast,
                            mandatory_expenses, total_mandatory_91d, available_credit,
                            collision_count, first_collision, output, forecast_call,
                            fetch_failed, answered >>

\* generate_mitigation: the collision list it leaves in the state
GenerateMitigation(cs, data, available) ==
    [i \in 1..Len(cs) |-> Mitigated(cs[i], data.invoice_data, data.customer_data, available)]

\* CollisionAgent.generate_mitigation
generate_mitigation ==
    /\ pc = "generate_mitigation"
    /\ UNCHANGED conc
    /\ pc' = "prepare_output"
    /\ IF error # Absent
       THEN UNCHANGED << state, forecast_call, fetch_failed, answered >>
       ELSE \E data \in MitigationData, fetched \in BOOLEAN :
              LET used == IF fetched THEN data
                          ELSE [customer_data |-> <<>>, invoice_data |-> <<>>]
              IN /\ collisions' = GenerateMitigation(collisions, used, available_credit)
                 /\ fetch_failed' = IF fetched THEN fetch_failed
                                    ELSE fetch_failed \cup {"customers"}
                 /\ current_step' = "mitigation_generated"
                 /\ answered' = [answered EXCEPT !.customer_data = used.customer_data,
                                                !.invoice_data = used.invoice_data]
                 /\ UNCHANGED << org_id, error, current_balance, minimum_balance, forecast,
                                 mandatory_expenses, total_mandatory_91d, available_credit,
                                 collision_count, first_collision, output, forecast_call >>

\* CollisionAgent.prepare_output
prepare_output ==
    /\ pc = "prepare_output"
    /\ UNCHANGED conc
    /\ pc' = "END"
    /\ IF error # Absent
       THEN /\ output' = ErrorReport(error)
            /\ UNCHANGED current_step
       ELSE /\ output' = SuccessReport(collisions, collision_count, first_collision,
                                       available_credit)
            /\ current_step' = "complete"
    /\ UNCHANGED << org_id, error, current_balance, minimum_balance, forecast,
                    mandatory_expenses, total_mandatory_91d, available_credit,
                    collisions, collision_count, first_collision, forecast_call,
                    fetch_failed, answered >>

Next ==
    \/ get_current_balance
    \/ get_forecast
    \/ get_mandatory_expenses
    \/ get_credit_limits
    \/ detect_collisions
    \/ analyze_severity
    \/ generate_mitigation
    \/ prepare_output

Spec == Init /\ [][Next]_vars

\* ===================================================================
\* Two runs in one process (CFO_Orchestrator_Agent/agent.py)
\* ===================================================================
\* The orchestrator serves calls on one event loop.  A run is suspended at
\* its awaits and between the nodes of its graph, and the other run goes on.
\* conc.cache is _collision_graphs[base] (0: no entry), conc.coll_agents the
\* number of CollisionAgent instances made (a graph bears the number of the
\* instance whose methods are its nodes), conc.agents the ForecastingAgent
\* instances, conc.world what the backend holds for each organisation.
Runs == {1, 2}

\* The organisation a run is called for
OrgOf(r) == IF r = 1 THEN "A" ELSE "B"

\* The state dictionary the orchestrator passes to ainvoke
RunInitState ==
    [org_id |-> "ok", error |-> Absent, current_step |-> "initialized",
     current_balance |-> 0, minimum_balance |-> 0, forecast |-> <<>>,
     mandatory_expenses |-> NoMandatory, total_mandatory_91d |-> 0,
     available_credit |-> 0, collisions |-> <<>>, collision_count |-> 0,
     first_collision |-> 0, output |-> NoOutput]

\* What the backend holds for one organisation; pred is what a model fitted
\* on its history predicts (the forest is seeded: random_state = 42)
ConcWorlds ==
    { [summary |-> [opening_balance |-> 10000, has_minimum |-> TRUE,
                    minimum_balance_required |-> 20000,
                    credit_line_limit |-> 20000, credit_line_utilized |-> 6000],
       payments |-> << Pay(Today - 3, 30000, "inflow"), Pay(Today - 2, 10000, "OUTFLOW") >>,
       allow |-> TRUE,
       bills |-> << Bill(1, <<"r","e","n","t">>, RawDate(Today), 7000),
                    Bill(2, <<"g","s","t">>, RawDate(Today + 1), 2000) >>,
       data |-> [customer_data |-> <<>>, invoice_data |-> <<>>],
       pred |-> [k \in 1..ForecastDays |-> 0 - 10000000]],
      [summary |-> [opening_balance |-> 10000, has_minimum |-> TRUE,
                    minimum_balance_required |-> 20000,
                    credit_line_limit |-> 30000000, credit_line_utilized |-> 0],
       payments |-> << Pay(Today - 2, 10000, "inflow"), Pay(Today - 1, 5000, "outflow") >>,
       allow |-> TRUE,
       bills |-> << Bill(1, <<"l","o","a","n"," ","e","m","i">>, RawDate(Today + 1), 20000) >>,
       data |-> [customer_data |-> << [customer_id |-> 1, reliability |-> Num(9)] >>,
                 invoice_data |-> << Invoice("open", 4000, 1, RawDate(Today - 5)) >>],
       pred |-> [k \in 1..ForecastDays |-> 0]],
      [summary |-> [opening_balance |-> 0, has_minimum |-> FALSE,
                    minimum_balance_required |-> 0,
                    credit_line_limit |-> 0, credit_line_utilized |-> 0],
       payments |-> << Pay(Today - 1, 20000, "inflow") >>,
       allow |-> FALSE,
       bills |-> <<>>,
       data |-> [customer_data |-> <<>>, invoice_data |-> <<>>],
       pred |-> [k \in 1..ForecastDays |-> 0]] }

\* The answer of GET /payments/org/{org_id} for a world
PaymentsOf(w) == [ok |-> TRUE, payments |-> w.payments]

\* agent = ForecastingAgent(), as one that is shared by the calls
NewForecastingAgent_Shared(agents, r) ==
    IF agents = <<>>
    THEN [agents |-> << [owner |-> r, fitted_on |-> "none"] >>, index |-> 1]
    ELSE [agents |-> agents, index |-> 1]

\* run_forecasting_agent: agent = ForecastingAgent(), a new instance with a
\* new, unfitted model
NewForecastingAgent(agents, r) ==
    [agents |-> Append(agents, [owner |-> r, fitted_on |-> "none"]),
     index |-> Len(agents) + 1]

\* self.model.predict of an instance: the predictions of the history it was
\* fitted on
PredictionsOf(agent, world) ==
    IF agent.fitted_on = "none" THEN [k \in 1..ForecastDays |-> 0]
    ELSE world[agent.fitted_on].pred

\* The forecast graph up to and with train_model
ForecastUntilTrained(w) ==
    F_train_model(
      F_prepare_features(
        F_analyze_seasonality(
          F_load_historical_data(ForecastInitState("ok"), PaymentsOf(w), w.allow))))

\* The forecast graph from generate_forecast on
ForecastFromGenerate(fs, w, pred) ==
    F_prepare_output(F_identify_drivers(F_generate_forecast(fs, PaymentsOf(w), pred)))

\* run_forecasting_agent: result.get('output', {})
ForecastOutput(result) ==
    IF result.has_output
    THEN [keys |-> {"status", "forecast"}, status |-> "success",
          message |-> Absent, forecast |-> result.output_forecast]
    ELSE EmptyDict

\* get_current_balance on a run's state dictionary
R_get_current_balance(st, w) ==
    [st EXCEPT !.current_balance = CurrentBalance(w.summary.opening_balance, w.payments),
               !.minimum_balance = MinimumBalance(w.summary),
               !.current_step = "balance_fetched"]

\* get_forecast on a run's state dictionary, given the forecast graph's result
R_get_forecast(st, result) ==
    IF st.error # Absent THEN st
    ELSE IF result.raised THEN [st EXCEPT !.error = "forecast agent raised"]
    ELSE [st EXCEPT !.forecast = ForecastData(ForecastOutput(result)),
                    !.current_step = "forecast_retrieved"]

\* get_mandatory_expenses on a run's state dictionary
R_get_mandatory_expenses(st, w) ==
    IF st.error # Absent THEN st
    ELSE [st EXCEPT !.mandatory_expenses = BuildMandatory(w.bills),
                    !.total_mandatory_91d = TotalMandatory(BuildMandatory(w.bills)),
                    !.current_step = "mandatory_expenses_retrieved"]

\* get_credit_limits on a run's state dictionary
R_get_credit_limits(st, w) ==
    IF st.error # Absent THEN st
    ELSE [st EXCEPT !.available_credit = w.summary.credit_line_limit
                                           - w.summary.credit_line_utilized,
                    !.current_step = "credit_limits_retrieved"]

\* detect_collisions on a run's state dictionary
R_detect_collisions(st) ==
    IF st.error # Absent THEN st
    ELSE LET found == DetectCollisions(st.forecast, st.mandatory_expenses,
                                       st.minimum_balance, st.available_credit)
         IN [st EXCEPT !.collisions = found,
                       !.collision_count = Len(found),
                       !.first_collision = IF found # <<>> THEN found[1].obj ELSE 0,
                       !.current_step = "collisions_detected"]

\* analyze_severity on a run's state dictionary
R_analyze_severity(st) ==
    IF st.error # Absent THEN st
    ELSE [st EXCEPT !.collisions = AnalyzeSeverity(st.collisions),
                    !.current_step = "severity_analyzed"]

\* generate_mitigation on a run's state dictionary
R_generate_mitigation(st, w) ==
    IF st.error # Absent THEN st
    ELSE [st EXCEPT !.collisions = GenerateMitigation(st.collisions, w.data,
                                                      st.available_credit),
                    !.current_step = "mitigation_generated"]

\* prepare_output on a run's state dictionary
R_prepare_output(st) ==
    IF st.error # Absent
    THEN [st EXCEPT !.output = ErrorReport(st.error)]
    ELSE [st EXCEPT !.output = SuccessReport(st.collisions, st.collision_count,
                                             st.first_collision, st.available_credit),
                    !.current_step = "complete"]

\* The collision graph run for one organisation with nothing else going on:
\* the eight nodes in edge order, the forecast from a model fitted on w
CollisionGraph(w) ==
    R_prepare_output(
      R_generate_mitigation(
        R_analyze_severity(
          R_detect_collisions(
            R_get_credit_limits(
              R_get_mandatory_expenses(
                R_get_forecast(
                  R_get_current_balance(RunInitState, w),
                  ForecastFromGenerate(ForecastUntilTrained(w), w, w.pred)),
                w),
              w))),
        w))

\* A call that has not begun
NewRun ==
    [pc |-> "start", graph |-> 0, made |-> 0, st |-> RunInitState, agent |-> 0,
     fs |-> ForecastInitState("ok")]

ConcInit ==
    /\ conc \in { [world |-> [o \in {"A", "B"} |-> IF o = "A" THEN wa ELSE wb],
                   cache |-> 0, coll_agents |-> 0, agents |-> <<>>,
                   run |-> [r \in Runs |-> NewRun], crossed |-> FALSE] :
                  wa \in ConcWorlds, wb \in ConcWorlds }
    /\ pc = "END"
    /\ org_id = "ok"
    /\ error = Absent
    /\ current_step = "initialized"
    /\ current_balance = 0
    /\ minimum_balance = 0
    /\ forecast = <<>>
    /\ mandatory_expenses = NoMandatory
    /\ total_mandatory_91d = 0
    /\ available_credit = 0
    /\ collisions = <<>>
    /\ collision_count = 0
    /\ first_collision = 0
    /\ output = NoOutput
    /\ forecast_call = NotCalled
    /\ fetch_failed = {}
    /\ answered = NothingFetched

\* The variables of the single run, which stay as they are
single == << pc, state, forecast_call, fetch_failed, answered >>

\* The world of run r's organisation
WorldOf(r) == conc.world[OrgOf(r)]

\* get_collision_graph up to its await: the cached graph, or a new
\* CollisionAgent whose graph is being made
C_get_collision_graph(r) ==
    /\ conc.run[r].pc = "start"
    /\ IF conc.cache # 0
       THEN conc' = [conc EXCEPT !.run[r].graph = conc.cache,
                                 !.run[r].pc = "get_current_balance"]
       ELSE conc' = [conc EXCEPT !.coll_agents = conc.coll_agents + 1,
                                 !.run[r].made = conc.coll_agents + 1,
                                 !.run[r].pc = "create_graph"]
    /\ UNCHANGED single

\* get_collision_graph after its await: the graph goes into the cache
C_create_graph(r) ==
    /\ conc.run[r].pc = "create_graph"
    /\ conc' = [conc EXCEPT !.cache = conc.run[r].made,
                            !.run[r].graph = conc.run[r].made,
                            !.run[r].pc = "get_current_balance"]
    /\ UNCHANGED single

C_get_current_balance(r) ==
    /\ conc.run[r].pc = "get_current_balance"
    /\ conc' = [conc EXCEPT !.run[r].st = R_get_current_balance(conc.run[r].st, WorldOf(r)),
                            !.run[r].pc = "get_forecast"]
    /\ UNCHANGED single

\* get_forecast up to the forecast graph's train_model: a ForecastingAgent is
\* made and its model fitted on the history of the run's organisation
C_get_forecast(r) ==
    /\ conc.run[r].pc = "get_forecast"
    /\ IF conc.run[r].st.error # Absent
       THEN conc' = [conc EXCEPT !.run[r].pc = "get_mandatory_expenses"]
       ELSE LET new == NewForecastingAgent(conc.agents, r)
                fs == ForecastUntilTrained(WorldOf(r))
                fitted == ~fs.raised /\ fs.error = Absent
                other == CHOOSE q \in Runs : q # r
            IN conc' = [conc EXCEPT
                          !.agents = IF fitted
                                     THEN [new.agents EXCEPT
                                             ![new.index].fitted_on = OrgOf(r)]
                                     ELSE new.agents,
                          !.run[r].agent = new.index,
                          !.run[r].fs = fs,
                          !.run[r].pc = "generate_forecast",
                          !.crossed = conc.crossed
                                        \/ conc.run[other].pc = "generate_forecast"]
    /\ UNCHANGED single

\* The forecast graph from generate_forecast on, with the model of the run's
\* ForecastingAgent, and the rest of get_forecast
C_generate_forecast(r) ==
    /\ conc.run[r].pc = "generate_forecast"
    /\ LET pred == PredictionsOf(conc.agents[conc.run[r].agent], conc.world)
           result == ForecastFromGenerate(conc.run[r].fs, WorldOf(r), pred)
       IN conc' = [conc EXCEPT !.run[r].fs = result,
                               !.run[r].st = R_get_forecast(conc.run[r].st, result),
                               !.run[r].pc = "get_mandatory_expenses"]
    /\ UNCHANGED single

C_get_mandatory_expenses(r) ==
    /\ conc.run[r].pc = "get_mandatory_expenses"
    /\ conc' = [conc EXCEPT !.run[r].st = R_get_mandatory_expenses(conc.run[r].st, WorldOf(r)),
                            !.run[r].pc = "get_credit_limits"]
    /\ UNCHANGED single

C_get_credit_limits(r) ==
    /\ conc.run[r].pc = "get_credit_limits"
    /\ conc' = [conc EXCEPT !.run[r].st = R_get_credit_limits(conc.run[r].st, WorldOf(r)),
                            !.run[r].pc = "detect_collisions"]
    /\ UNCHANGED single

C_detect_collisions(r) ==
    /\ conc.run[r].pc = "detect_collisions"
    /\ conc' = [conc EXCEPT !.run[r].st = R_detect_collisions(conc.run[r].st),
                            !.run[r].pc = "analyze_severity"]
    /\ UNCHANGED single

C_analyze_severity(r) ==
    /\ conc.run[r].pc = "analyze_severity"
    /\ conc' = [conc EXCEPT !.run[r].st = R_analyze_severity(conc.run[r].st),
                            !.run[r].pc = "generate_mitigation"]
    /\ UNCHANGED single

C_generate_mitigation(r) ==
    /\ conc.run[r].pc = "generate_mitigation"
    /\ conc' = [conc EXCEPT !.run[r].st = R_generate_mitigation(conc.run[r].st, WorldOf(r)),
                            !.run[r].pc = "prepare_output"]
    /\ UNCHANGED single

C_prepare_output(r) ==
    /\ conc.run[r].pc = "prepare_output"
    /\ conc' = [conc EXCEPT !.run[r].st = R_prepare_output(conc.run[r].st),
                            !.run[r].pc = "END"]
    /\ UNCHANGED single

ConcNext ==
    \E r \in Runs :
        \/ C_get_collision_graph(r)
        \/ C_create_graph(r)
        \/ C_get_current_balance(r)
        \/ C_get_forecast(r)
        \/ C_generate_forecast(r)
        \/ C_get_mandatory_expenses(r)
        \/ C_get_credit_limits(r)
        \/ C_detect_collisions(r)
        \/ C_analyze_severity(r)
        \/ C_generate_mitigation(r)
        \/ C_prepare_output(r)

ConcurrentSpec == ConcInit /\ [][ConcNext]_vars


\* ===================================================================
\* Properties
\* ===================================================================
\* The run has a success report
Succeeded == pc = "END" /\ output.status = "success"

\* A list is in descending order of severity_score
DescendingBySeverity(cs) ==
    \A i \in 1..Len(cs) : \A j \in 1..Len(cs) :
        i < j => cs[i].severity_score >= cs[j].severity_score

\* C1: from analyze_severity on, and in every success report, the collision
\* list is in descending order of severity_score: no entry with a lower score
\* comes before one with a higher score.
C1_SortedBySeverity ==
    /\ (error = Absent /\ pc \in {"generate_mitigation", "prepare_output", "END"})
          => DescendingBySeverity(collisions)
    /\ output.status = "success" => DescendingBySeverity(output.collisions_91d)

\* A success report whose list had to be reordered: two collisions with
\* different scores stand in the opposite order of their detection.
C1_Witness ==
    /\ Succeeded
    /\ \E i \in 1..Len(output.collisions_91d) : \E j \in 1..Len(output.collisions_91d) :
          /\ i < j
          /\ output.collisions_91d[i].obj > output.collisions_91d[j].obj
          /\ output.collisions_91d[i].severity_score > output.collisions_91d[j].severity_score

\* The forecast run of this collision run failed with the causes of C2
ForecastFailed ==
    /\ forecast_call.called
    /\ forecast_call.error \in {"failed to fetch payments", "no_payments",
                                "Insufficient historical data"}

\* C2: when the forecast run fails (payments fetch fails, no payments, too
\* little history with partial-allowance off), the collision pipeline has its
\* error sentinel set and its final report is an error report.
C2_ForecastFailureIsFatal ==
    ForecastFailed => (error # Absent /\ (pc = "END" => output.status = "error"))

\* C3: no exception leaves the graph, and a finished run has a report that is
\* a success report or an error object with a message.
C3_NoExceptionLeavesTheGraph ==
    /\ pc # "raised"
    /\ pc = "END" =>
          \/ output.status = "success"
          \/ (output.status = "error" /\ output.message # Absent)

\* The state dictionary without its 'output' key
stateButOutput ==
    << org_id, error, current_step, current_balance, minimum_balance, forecast,
       mandatory_expenses, total_mandatory_91d, available_credit, collisions,
       collision_count, first_collision >>

\* C4: once the error sentinel is set, each of get_forecast ... generate_mitigation
\* leaves the state as it is, and prepare_output sets output to
\* {status: "error", message: <the sentinel>} and changes nothing else.
C4_ErrorPassThrough ==
    [][ error # Absent =>
          /\ pc \in {"get_forecast", "get_mandatory_expenses", "get_credit_limits",
                     "detect_collisions", "analyze_severity", "generate_mitigation"}
                => state' = state
          /\ pc = "prepare_output"
                => /\ stateButOutput' = stateButOutput
                   /\ output'.keys = {"status", "message"}
                   /\ output'.status = "error"
                   /\ output'.message = error ]_vars

\* A run in which get_forecast set the sentinel has ended with the error report.
C4_Witness ==
    /\ pc = "END"
    /\ error = "forecast agent raised"
    /\ current_step = "balance_fetched"
    /\ output.status = "error" /\ output.message = error

\* C5: a failed run hands its caller a non-empty object with status "error"
\* and a message, for the collision pipeline and for run_forecasting_agent.
C5_FailureReportWellFormed ==
    /\ (pc = "END" /\ error # Absent)
          => (output.status = "error" /\ output.message # Absent)
    /\ (forecast_call.called /\ ~forecast_call.raised /\ forecast_call.error # Absent)
          => /\ forecast_call.output.keys # {}
             /\ forecast_call.output.status = "error"
             /\ forecast_call.output.message # Absent

\* A collision carries a lever of that name
HasLever(c, name) ==
    \E k \in 1..Len(c.mitigation_levers) : c.mitigation_levers[k].lever = name

\* C6: a failed mandatory-expense or credit-limit fetch never sets the error
\* sentinel and the run ends with a success report; after a failed
\* mandatory-expense fetch every collision has mandatory_expenses = 0, after a
\* failed credit-limit fetch available_credit = 0, no collision has
\* credit_can_cover and none has a draw_credit_line lever.
C6_NonFatalFetchFailures ==
    /\ fetch_failed # {} => error = Absent
    /\ (fetch_failed # {} /\ pc = "END") => output.status = "success"
    /\ "mandatory_expenses" \in fetch_failed =>
          /\ DOMAIN mandatory_expenses = {}
          /\ \A i \in 1..Len(collisions) : collisions[i].mandatory_expenses = 0
          /\ \A i \in 1..Len(output.collisions_91d) :
                output.collisions_91d[i].mandatory_expenses = 0
    /\ "credit_limits" \in fetch_failed =>
          /\ available_credit = 0
          /\ \A i \in 1..Len(collisions) :
                /\ ~collisions[i].credit_can_cover
                /\ ~HasLever(collisions[i], "draw_credit_line")
          /\ \A i \in 1..Len(output.collisions_91d) :
                /\ ~output.collisions_91d[i].credit_can_cover
                /\ ~HasLever(output.collisions_91d[i], "draw_credit_line")

\* Both fetches failed and the run ended with a success report with collisions.
C6_Witness ==
    /\ Succeeded
    /\ {"mandatory_expenses", "credit_limits"} \subseteq fetch_failed
    /\ Len(output.collisions_91d) > 0

\* C7: a run ends with current_step 'complete' when a report was produced and
\* with 'error' when the error sentinel was set.
C7_TerminalStep ==
    pc = "END" =>
        /\ current_step \in {"complete", "error"}
        /\ error = Absent => current_step = "complete"
        /\ error # Absent => current_step = "error"

\* The mandatory total the state holds for a date string, 0 if none
MandatoryTotalAt(date) ==
    IF date \in DOMAIN mandatory_expenses THEN mandatory_expenses[date].total ELSE 0

\* The forecast days whose balance after mandatory expenses is below the minimum
CollidingDays ==
    { i \in 1..Len(forecast) :
        forecast[i].predicted_balance - MandatoryTotalAt(forecast[i].date) < minimum_balance }

\* C8: detect_collisions records exactly one collision for each forecast day
\* whose predicted_balance minus the mandatory total of that date is below the
\* minimum balance, and none for another day; each has deficit_amount =
\* minimum_balance - balance_after_mandatory >= 0 and credit_can_cover exactly
\* when deficit_amount <= available_credit.
C8_DetectCollisions ==
    (error = Absent /\ pc \in {"analyze_severity", "generate_mitigation",
                               "prepare_output", "END"}) =>
        /\ Len(collisions) = Cardinality(CollidingDays)
        /\ \A i \in CollidingDays :
              Cardinality({ k \in 1..Len(collisions) :
                              collisions[k].collision_date = forecast[i].date }) = 1
        /\ \A k \in 1..Len(collisions) :
              \E i \in CollidingDays :
                 LET c == collisions[k]
                     bam == forecast[i].predicted_balance - MandatoryTotalAt(forecast[i].date)
                 IN /\ c.collision_date = forecast[i].date
                    /\ c.predicted_balance = forecast[i].predicted_balance
                    /\ c.mandatory_expenses = MandatoryTotalAt(forecast[i].date)
                    /\ c.balance_after_mandatory = bam
                    /\ c.deficit_amount = minimum_balance - bam
                    /\ c.deficit_amount >= 0
                    /\ c.credit_can_cover <=> (c.deficit_amount <= available_credit)

\* Collisions were just detected: some forecast days collide and some do not,
\* one collision has mandatory expenses and one can be covered by credit.
C8_Witness ==
    /\ pc = "analyze_severity" /\ error = Absent
    /\ Len(collisions) >= 1 /\ Len(collisions) < Len(forecast)
    /\ \E k \in 1..Len(collisions) : collisions[k].mandatory_expenses > 0
    /\ \E k \in 1..Len(collisions) : collisions[k].credit_can_cover
    /\ \E k \in 1..Len(collisions) : ~collisions[k].credit_can_cover

\* The probability-weighted sum over the levers a collision carries, in
\* twentieths of a unit
WeightedLevers(c) ==
    SumSeq([k \in 1..Len(c.mitigation_levers) |->
              c.mitigation_levers[k].potential_amount
              * c.mitigation_levers[k].success_probability])

\* C9: for every collision of a report, total_mitigation_potential is the sum
\* over its levers of potential_amount x success_probability, and
\* can_be_mitigated holds exactly when that total is >= 0.7 x deficit_amount
\* (true at equality).
C9_MitigationCoverage ==
    output.status = "success" =>
        \A i \in 1..Len(output.collisions_91d) :
            LET c == output.collisions_91d[i]
            IN /\ c.has_mitigation
               /\ c.total_mitigation_potential = WeightedLevers(c)
               /\ c.can_be_mitigated <=> (WeightedLevers(c) >= 14 * c.deficit_amount)

\* A report with a collision whose levers cover exactly 0.7 of the deficit,
\* and one that cannot be mitigated.
C9_Witness ==
    /\ Succeeded
    /\ \E i \in 1..Len(output.collisions_91d) :
          LET c == output.collisions_91d[i]
          IN /\ c.mitigation_levers # <<>>
             /\ c.total_mitigation_potential = 14 * c.deficit_amount
             /\ c.can_be_mitigated
    /\ \E i \in 1..Len(output.collisions_91d) :
          ~output.collisions_91d[i].can_be_mitigated

\* C10: for every collision, whatever the sign of days_from_now, the
\* severity_score lies between 0 and 100 (10000 hundredths).
C10_SeverityInRange ==
    \A i \in 1..Len(collisions) :
        collisions[i].has_severity =>
            (collisions[i].severity_score >= 0 /\ collisions[i].severity_score <= 10000)

\* The label that the thresholds 80 / 60 / 40 give to a score in hundredths
LabelOfScore(score) ==
    IF score >= 8000 THEN "critical"
    ELSE IF score >= 6000 THEN "high"
    ELSE IF score >= 4000 THEN "medium"
    ELSE "low"

\* C11: for every emitted collision the severity label is the one the
\* thresholds give to the emitted severity_score: critical iff >= 80, high iff
\* in [60, 80), medium iff in [40, 60), low iff < 40.
C11_LabelAgreesWithScore ==
    \A i \in 1..Len(collisions) :
        collisions[i].has_severity =>
            collisions[i].severity = LabelOfScore(collisions[i].severity_score)

\* 0.4 x max(0, 100 - 2 x days_from_now) + 0.35 x min(100, deficit / 1e9 x 100)
\* + 0.25 x (0 if credit_can_cover else 50), in units of 1/2000000 point
ClaimedSeverity(c) ==
    (800000 * (IF 100 - 2 * c.days_from_now > 0 THEN 100 - 2 * c.days_from_now ELSE 0))
    + (7 * (IF c.deficit_amount < 10000000 THEN c.deficit_amount ELSE 10000000))
    + (500000 * (IF c.credit_can_cover THEN 0 ELSE 50))

\* The collision of the example: today, a deficit of 2e9, credit cannot cover
IsClampExample(c) ==
    c.has_severity /\ c.days_from_now = 0 /\ c.deficit_amount = 20000000
    /\ ~c.credit_can_cover

\* C12 (as stated): severity_score is exactly the weighted sum
\* 0.4 x proximity + 0.35 x magnitude + 0.25 x credit.
C12_SeverityIsWeightedSum ==
    \A i \in 1..Len(collisions) :
        collisions[i].has_severity =>
            collisions[i].severity_score * 20000 = ClaimedSeverity(collisions[i])

\* C12 (amended): severity_score is the weighted sum 0.4 x proximity + 0.35 x
\* magnitude + 0.25 x credit rounded to two decimals; a collision with
\* days_from_now = 0, deficit 2e9 and credit_can_cover = false has
\* severity_score 87.5 and label critical.
C12_SeverityIsRoundedWeightedSum ==
    \A i \in 1..Len(collisions) :
        LET c == collisions[i]
            q == ClaimedSeverity(c) \div 20000
            r == ClaimedSeverity(c) % 20000
        IN c.has_severity =>
             /\ c.severity_score \in {q, q + 1}
             /\ (r < 10000 => c.severity_score = q)
             /\ (r > 10000 => c.severity_score = q + 1)
             /\ (r = 10000 => c.severity_score % 2 = 0)
             /\ (IsClampExample(c) => c.severity_score = 8750 /\ c.severity = "critical")

\* The example collision is in a report, next to a collision of another score.
C12_Witness ==
    /\ Succeeded
    /\ \E i \in 1..Len(output.collisions_91d) : IsClampExample(output.collisions_91d[i])
    /\ \E i \in 1..Len(output.collisions_91d) :
          output.collisions_91d[i].severity_score # 8750

\* The emergency plan of a report and the first entry of its collision list
PlanOf(report) == report.emergency_action_plan
TopOf(report) == report.collisions_91d[1]

\* emergency_action_plan is non-null exactly when the list is non-empty and its
\* first entry is critical or high; that entry has the largest severity_score
\* and the plan's amounts are that entry's.
PlanFollowsTopCollision ==
    output.status = "success" =>
        /\ PlanOf(output).present <=>
              /\ output.collisions_91d # <<>>
              /\ TopOf(output).severity \in {"critical", "high"}
        /\ PlanOf(output).present =>
              /\ \A i \in 1..Len(output.collisions_91d) :
                    TopOf(output).severity_score >= output.collisions_91d[i].severity_score
              /\ PlanOf(output).expected_recovery = ExpectedRecovery(TopOf(output))
              /\ PlanOf(output).expected_deferral = ExpectedDeferral(TopOf(output))
              /\ PlanOf(output).amount = available_credit

\* C13 (as stated): the plan follows the top collision, and its deadlines are
\* the collision date, the day before it and two days before it.
C13_DeadlinesOneAndTwoDaysBefore ==
    /\ PlanFollowsTopCollision
    /\ (output.status = "success" /\ PlanOf(output).present) =>
          LET day == ParseDate(TopOf(output).collision_date).day
          IN { PlanOf(output).deadlines[k] : k \in 1..Len(PlanOf(output).deadlines) }
               = { Strftime(day), Strftime(day - 1), Strftime(day - 2) }

\* C13 (amended): emergency_action_plan is non-null exactly when the list is
\* non-empty and its first entry is critical or high; it is built from that
\* entry, which has the largest severity_score; its action_date is two days
\* before the collision date, and the deadlines of its three actions are the
\* day before the collision, the collision date, and the day before again.
C13_EmergencyPlan ==
    /\ PlanFollowsTopCollision
    /\ (output.status = "success" /\ PlanOf(output).present) =>
          LET day == ParseDate(TopOf(output).collision_date).day
          IN /\ PlanOf(output).action_date = Strftime(day - 2)
             /\ PlanOf(output).deadlines
                  = << Strftime(day - 1), Strftime(day), Strftime(day - 1) >>

\* A report with a plan, whose list has collisions of different scores and
\* whose top collision was not the first one detected.
C13_Witness ==
    /\ Succeeded
    /\ PlanOf(output).present
    /\ Len(output.collisions_91d) >= 2
    /\ TopOf(output).obj # 1
    /\ \E i \in 1..Len(output.collisions_91d) :
          output.collisions_91d[i].severity_score < TopOf(output).severity_score

\* The priority each kind of lever is emitted with
PriorityOf(name) ==
    CASE name = "accelerate_collections" -> 1
      [] name = "defer_payables" -> 2
      [] name = "draw_credit_line" -> 3
      [] name = "restructure_loan" -> 4
      [] OTHER -> 0

\* C14: every collision carries between 0 and 4 levers, at most one of each
\* kind, in strictly ascending priority, with accelerate_collections = 1,
\* defer_payables = 2, draw_credit_line = 3 and restructure_loan = 4, whatever
\* their potential amounts or probabilities.
C14_LeverOrder ==
    \A i \in 1..Len(collisions) :
        LET levers == collisions[i].mitigation_levers
        IN collisions[i].has_mitigation =>
             /\ Len(levers) <= 4
             /\ \A k \in 1..Len(levers) :
                   /\ PriorityOf(levers[k].lever) # 0
                   /\ levers[k].priority = PriorityOf(levers[k].lever)
             /\ \A k \in 1..Len(levers), m \in 1..Len(levers) :
                   k < m => levers[k].priority < levers[m].priority

\* A collision with all four levers, where a later lever is worth more than
\* an earlier one, and a collision with fewer levers.
C14_Witness ==
    /\ \E i \in 1..Len(collisions) :
          LET levers == collisions[i].mitigation_levers
          IN /\ collisions[i].has_mitigation
             /\ Len(levers) = 4
             /\ \E k \in 1..3 :
                   levers[k].potential_amount * levers[k].success_probability
                     < levers[k + 1].potential_amount * levers[k + 1].success_probability
    /\ \E i \in 1..Len(collisions) :
          collisions[i].has_mitigation /\ Len(collisions[i].mitigation_levers) < 4

\* The categories the claim names as non-deferrable
NonDeferrableNamed ==
    { <<"p","a","y","r","o","l","l">>, <<"s","a","l","a","r","y">>,
      <<"s","t","a","t","u","t","o","r","y">>, <<"t","a","x">>, <<"g","s","t">> }

\* The amounts of a collision's bucket bills outside the named categories
DeferrableSum(c) ==
    SumSeq([k \in 1..Len(c.bills) |->
              IF c.bills[k].category \in NonDeferrableNamed THEN 0 ELSE c.bills[k].amount])

\* The defer_payables levers of a collision
DeferLevers(c) ==
    LET IsDefer(l) == l.lever = "defer_payables"
    IN SelectSeq(c.mitigation_levers, IsDefer)

\* C15: bills of the categories payroll, salary, statutory, tax and gst never
\* count toward defer_payables: the lever's potential is the sum of the
\* collision's bucket bills outside those categories, and a collision whose
\* bucket holds only payroll and gst items has no defer_payables lever.
C15_NonDeferrableExcluded ==
    \A i \in 1..Len(collisions) :
        LET c == collisions[i]
        IN c.has_mitigation =>
             /\ DeferrableSum(c) > 0 =>
                   /\ Len(DeferLevers(c)) = 1
                   /\ DeferLevers(c)[1].potential_amount = DeferrableSum(c)
             /\ DeferrableSum(c) = 0 => DeferLevers(c) = <<>>
             /\ (\A k \in 1..Len(c.bills) :
                    c.bills[k].category \in { <<"p","a","y","r","o","l","l">>, <<"g","s","t">> })
                  => DeferLevers(c) = <<>>

\* One collision whose bucket holds a payroll and a gst bill and that has no
\* defer_payables lever, and one whose bucket mixes a salary bill with a rent
\* bill and whose lever counts the rent alone.
C15_Witness ==
    /\ \E i \in 1..Len(collisions) :
          LET c == collisions[i]
          IN /\ c.has_mitigation /\ Len(c.bills) = 2
             /\ \A k \in 1..2 :
                   c.bills[k].category \in { <<"p","a","y","r","o","l","l">>, <<"g","s","t">> }
             /\ DeferLevers(c) = <<>>
    /\ \E i \in 1..Len(collisions) :
          LET c == collisions[i]
          IN /\ c.has_mitigation
             /\ \E k \in 1..Len(c.bills) : c.bills[k].category = <<"s","a","l","a","r","y">>
             /\ Len(DeferLevers(c)) = 1
             /\ DeferLevers(c)[1].potential_amount < c.mandatory_expenses

\* The keywords the claim names
NamedKeywords ==
    { <<"p","a","y","r","o","l","l">>, <<"s","a","l","a","r","y">>, <<"r","e","n","t">>,
      <<"l","o","a","n">>, <<"e","m","i">>, <<"g","s","t">>, <<"t","a","x">>,
      <<"s","t","a","t","u","t","o","r","y">> }

\* The bill ids in the bucket of a due date
BucketIds(key) ==
    IF key \in DOMAIN mandatory_expenses
    THEN { mandatory_expenses[key].items[k].bill_id :
             k \in 1..Len(mandatory_expenses[key].items) }
    ELSE {}

\* C16: a bill with a parsable due date is in the bucket of that date exactly
\* when its lower-cased category contains one of the keywords payroll, salary,
\* rent, loan, emi, gst, tax, statutory; a bill whose due date does not parse
\* is in no bucket.
C16_MandatoryKeywords ==
    answered.has_bills =>
        \A i \in 1..Len(answered.bills_detail) :
            LET bill == answered.bills_detail[i]
                due == ParseDate(bill.due_date)
            IN IF due.ok
               THEN (bill.bill_id \in BucketIds(Strftime(due.day)))
                      <=> (\E kw \in NamedKeywords : IsSubstring(kw, Lower(bill.category)))
               ELSE \A key \in DOMAIN mandatory_expenses : bill.bill_id \notin BucketIds(key)

\* The forecast agent was called and its run got as far as generate_forecast
ForecastGenerated ==
    /\ forecast_call.called
    /\ ~forecast_call.final.raised
    /\ forecast_call.final.error = Absent

\* The latest day among the payment dates that parse
LastHistoricalDay(payments) ==
    LET days == { payments[i].date.day :
                    i \in { j \in 1..Len(payments) : payments[j].date.kind = "iso" } }
    IN CHOOSE d \in days : \A e \in days : e <= d

\* C17: whenever the forecast run reaches forecast generation, the forecast has
\* one entry per day of the horizon (91 in the code, ForecastDays here), on
\* consecutive calendar days that start the day after the last historical date.
C17_ForecastDates ==
    ForecastGenerated =>
        LET results == forecast_call.final.forecast_results
            last == LastHistoricalDay(forecast_call.fetch.payments)
        IN /\ Len(results) = ForecastDays
           /\ \A k \in 1..Len(results) : results[k].date = Strftime(last + k)
           /\ forecast_call.output.forecast = results
           /\ forecast = results

\* A forecast was generated from a history with a gap between its days and a
\* record whose date does not parse.
C17_Witness ==
    /\ ForecastGenerated
    /\ \E i \in 1..Len(forecast_call.fetch.payments) :
          forecast_call.fetch.payments[i].date.kind = "bad"
    /\ Len(forecast) = ForecastDays
    /\ forecast[1].date = Strftime(Today - 69)

\* Inflows minus outflows of the payments dated up to a day
HistoricalNet(payments, last) ==
    SumSeq([i \in 1..Len(payments) |->
              LET p == payments[i]
              IN IF p.date.kind = "iso" /\ p.date.day <= last /\ p.amount.ok
                 THEN (IF LowerType(p.ptype) = "outflow" THEN 0 - p.amount.val
                       ELSE p.amount.val)
                 ELSE 0])

\* C18: the forecast's running balance starts from the organisation's opening
\* balance plus the historical inflows minus outflows up to the last
\* historical date: predicted_balance of day 1 is opening_balance + that sum
\* + the predicted change of day 1.
C18_SeededFromOpeningBalance ==
    (ForecastGenerated /\ answered.has_org_data /\ forecast_call.fetch2.ok) =>
        LET payments == forecast_call.fetch.payments
            last == LastHistoricalDay(payments)
        IN forecast[1].predicted_balance
             = answered.org_data.opening_balance + HistoricalNet(payments, last)
               + forecast[1].daily_change

\* The distinct days among the payment dates that parse
DistinctDays(payments) ==
    { payments[i].date.day :
        i \in { j \in 1..Len(payments) : payments[j].date.kind = "iso" } }

\* The forecast agent was called and load_historical_data got payments
HistoryLoaded ==
    /\ forecast_call.called
    /\ org_id = "ok"
    /\ forecast_call.fetch.ok
    /\ forecast_call.fetch.payments # <<>>

\* C19: with fewer distinct days of history than MIN_DAYS, load_historical_data
\* aborts with the insufficient-history error and builds no series when
\* partial-allowance is off, and builds the series with partial_history = true
\* when it is on; with MIN_DAYS or more distinct days it builds the series
\* without the flag.
C19_PartialHistoryPolicy ==
    HistoryLoaded =>
        LET n == Cardinality(DistinctDays(forecast_call.fetch.payments))
            loaded == forecast_call.loaded
            Built == /\ loaded.error = Absent
                     /\ loaded.current_step = "data_loaded"
                     /\ Len(loaded.dates) = n /\ Len(loaded.net_changes) = n
                     /\ { loaded.dates[k] : k \in 1..n }
                          = DistinctDays(forecast_call.fetch.payments)
        IN /\ (n < MIN_DAYS /\ ~forecast_call.allow) =>
                 /\ loaded.error = "Insufficient historical data"
                 /\ loaded.current_step = "error"
                 /\ loaded.dates = <<>> /\ loaded.net_changes = <<>>
                 /\ ~loaded.partial_history
           /\ (n < MIN_DAYS /\ forecast_call.allow) => (Built /\ loaded.partial_history)
           /\ n >= MIN_DAYS => (Built /\ ~loaded.partial_history)

\* A history of exactly MIN_DAYS - 1 distinct days was loaded with
\* partial-allowance on.
C19_Witness ==
    /\ HistoryLoaded
    /\ Cardinality(DistinctDays(forecast_call.fetch.payments)) = MIN_DAYS - 1
    /\ forecast_call.allow
    /\ forecast_call.loaded.partial_history
    /\ forecast_call.loaded.dates # <<>>

\* The distinct days of the records whose date and amount both parse
ValidDays(payments) ==
    { payments[i].date.day :
        i \in { j \in 1..Len(payments) :
                  payments[j].date.kind = "iso" /\ payments[j].amount.ok } }

\* C20: a payment record whose date or amount does not parse is skipped by
\* load_historical_data: the dates of the series are those of the records
\* that parse in both fields, and only they count toward the minimum number
\* of distinct days.
C20_UnparsableRecordsSkipped ==
    HistoryLoaded =>
        LET valid == ValidDays(forecast_call.fetch.payments)
            loaded == forecast_call.loaded
        IN /\ loaded.error = Absent =>
                { loaded.dates[k] : k \in 1..Len(loaded.dates) } = valid
           /\ (Cardinality(valid) < MIN_DAYS /\ ~forecast_call.allow) =>
                loaded.error = "Insufficient historical data"

\* C22: in every success report immediate_action is MONITOR exactly when
\* collisions_91d is empty and URGENT otherwise; a forecast that never drops
\* below the minimum balance, with no mandatory expenses, gives an empty
\* collisions_91d and MONITOR.
C22_MonitorIffNoCollisions ==
    output.status = "success" =>
        /\ output.immediate_action \in {"MONITOR", "URGENT"}
        /\ output.immediate_action = "MONITOR" <=> output.collisions_91d = <<>>
        /\ ( /\ DOMAIN mandatory_expenses = {}
             /\ \A k \in 1..Len(forecast) :
                   forecast[k].predicted_balance >= minimum_balance )
           => (output.collisions_91d = <<>> /\ output.immediate_action = "MONITOR")

\* A report on a generated forecast that stays at or above the minimum balance,
\* touching it on one day, with no mandatory expenses.
C22_Witness ==
    /\ Succeeded
    /\ ForecastGenerated /\ Len(forecast) = ForecastDays
    /\ DOMAIN mandatory_expenses = {}
    /\ \A k \in 1..Len(forecast) : forecast[k].predicted_balance >= minimum_balance
    /\ \E k \in 1..Len(forecast) : forecast[k].predicted_balance = minimum_balance
    /\ output.immediate_action = "MONITOR"

\* The value current_step has when a node is about to run, as the linear
\* sequence of steps gives it
StepBefore(node) ==
    CASE node = "get_current_balance" -> "initialized"
      [] node = "get_forecast" -> "balance_fetched"
      [] node = "get_mandatory_expenses" -> "forecast_retrieved"
      [] node = "get_credit_limits" -> "mandatory_expenses_retrieved"
      [] node = "detect_collisions" -> "credit_limits_retrieved"
      [] node = "analyze_severity" -> "collisions_detected"
      [] node = "generate_mitigation" -> "severity_analyzed"
      [] node = "prepare_output" -> "mitigation_generated"
      [] node = "END" -> "complete"
      [] OTHER -> Absent

\* C23: in a run without the error sentinel, also when the mandatory-expense
\* or the credit-limit fetch failed, current_step goes through initialized,
\* balance_fetched, forecast_retrieved, mandatory_expenses_retrieved,
\* credit_limits_retrieved, collisions_detected, severity_analyzed,
\* mitigation_generated, complete, one per node, in that order.
C23_StepSequence ==
    (error = Absent /\ pc # "raised") => current_step = StepBefore(pc)

\* The draw_credit_line levers of a collision
CreditLevers(c) ==
    LET IsCredit(l) == l.lever = "draw_credit_line"
    IN SelectSeq(c.mitigation_levers, IsCredit)

\* C24: a collision carries the draw_credit_line lever exactly when the
\* available credit is strictly more than half its deficit_amount, and the
\* lever's potential_amount is then the whole available credit, not capped at
\* the deficit.
C24_CreditLever ==
    \A i \in 1..Len(collisions) :
        LET c == collisions[i]
        IN c.has_mitigation =>
             /\ (CreditLevers(c) # <<>>) <=> (2 * available_credit > c.deficit_amount)
             /\ \A k \in 1..Len(CreditLevers(c)) :
                   CreditLevers(c)[k].potential_amount = available_credit

\* One collision whose deficit is exactly twice the available credit and that
\* has no credit lever, next to one that has the lever.
C24_Witness ==
    /\ available_credit > 0
    /\ \E i \in 1..Len(collisions) :
          /\ collisions[i].has_mitigation
          /\ collisions[i].deficit_amount = 2 * available_credit
          /\ CreditLevers(collisions[i]) = <<>>
    /\ \E i \in 1..Len(collisions) :
          /\ collisions[i].has_mitigation
          /\ CreditLevers(collisions[i]) # <<>>

\* The accelerate_collections levers of a collision
AccelerateLevers(c) ==
    LET IsAccelerate(l) == l.lever = "accelerate_collections"
    IN SelectSeq(c.mitigation_levers, IsAccelerate)

\* The invoices that are open, partial or unpaid and due strictly before the
\* collision date, as positions in the invoice list
OverdueAt(c) ==
    { j \in 1..Len(answered.invoice_data) :
        LET inv == answered.invoice_data[j]
        IN /\ inv.status \in {"open", "partial", "unpaid"}
           /\ inv.due_date.kind = "iso"
           /\ inv.due_date.day < c.collision_date.day }

\* The remaining amount of an invoice
Remaining(j) ==
    IF answered.invoice_data[j].remaining.ok
    THEN answered.invoice_data[j].remaining.val ELSE 0

\* amount x (reliability_score x 0.9) of a target entry, in thousandths
RankOf(target) == target.amount * target.collection_probability

\* C25: the accelerate_collections potential of a collision is the sum of the
\* remaining amounts of the open, partial or unpaid invoices due strictly
\* before the collision date; the lever is there only if that sum is > 0;
\* its target_customers are at most 5, in descending order of
\* amount x (reliability_score x 0.9), and no candidate left out ranks above
\* one that is listed.
C25_AccelerateCollections ==
    \A i \in 1..Len(collisions) :
        LET c == collisions[i]
            overdue == OverdueAt(c)
            total == SumSeq([j \in 1..Len(answered.invoice_data) |->
                               IF j \in overdue THEN Remaining(j) ELSE 0])
            levers == AccelerateLevers(c)
        IN c.has_mitigation =>
             /\ (levers # <<>>) <=> (total > 0)
             /\ \A n \in 1..Len(levers) :
                   LET targets == levers[n].target_customers
                   IN /\ levers[n].potential_amount = total
                      /\ Len(targets) = Min(5, Cardinality(overdue))
                      /\ \A k \in 1..Len(targets) :
                            /\ targets[k].collection_probability = targets[k].reliability_score * 9
                            /\ \E j \in overdue :
                                  /\ targets[k].amount = Remaining(j)
                                  /\ targets[k].customer_id = answered.invoice_data[j].customer_id
                                  /\ targets[k].due_date = answered.invoice_data[j].due_date
                      /\ \A k \in 1..Len(targets), m \in 1..Len(targets) :
                            k < m => RankOf(targets[k]) >= RankOf(targets[m])
                      /\ \A j \in overdue :
                            LET cand == CollectionTarget(answered.invoice_data[j],
                                                         answered.customer_data)
                            IN \/ \E k \in 1..Len(targets) : targets[k] = cand
                               \/ \A k \in 1..Len(targets) : RankOf(targets[k]) >= RankOf(cand)

\* A collision with six overdue invoices, five of them listed, the list not in
\* the order of the invoices.
C25_Witness ==
    \E i \in 1..Len(collisions) :
        LET c == collisions[i]
        IN /\ c.has_mitigation
           /\ Cardinality(OverdueAt(c)) = 6
           /\ AccelerateLevers(c) # <<>>
           /\ Len(AccelerateLevers(c)[1].target_customers) = 5
           /\ AccelerateLevers(c)[1].target_customers[1].amount
                # Remaining(CHOOSE j \in OverdueAt(c) : \A h \in OverdueAt(c) : j <= h)

\* The sign a record gets from its type tag alone
SignByTypeTag(p) ==
    IF LowerType(p.ptype) = "outflow" THEN 0 - PaymentAmount(p) ELSE PaymentAmount(p)

\* The net change of day d when the sign of each record is given by sign_of
NetOfDay(payments, d, sign_of(_)) ==
    SumSeq([i \in 1..Len(payments) |->
              IF payments[i].date.kind = "iso" /\ payments[i].date.day = d
              THEN sign_of(payments[i]) ELSE 0])

\* C26: in load_historical_data the sign of a record is decided by its type
\* tag only: 'outflow' subtracts the amount from its day's net change, and
\* 'inflow' and every missing or unrecognised tag add it, whatever other
\* fields the record carries.
C26_SignByTypeTagOnly ==
    (HistoryLoaded /\ forecast_call.loaded.error = Absent) =>
        LET loaded == forecast_call.loaded
        IN \A k \in 1..Len(loaded.dates) :
              loaded.net_changes[k]
                = NetOfDay(forecast_call.fetch.payments, loaded.dates[k], SignByTypeTag)

\* The payments in the opposite order
ReversePayments(payments) ==
    [i \in 1..Len(payments) |-> payments[Len(payments) + 1 - i]]

\* C27: the series built by load_historical_data has strictly ascending
\* dates without duplicates, one entry per calendar day that has a record,
\* each day's net_change is the signed sum of all records of that date, and
\* the series does not depend on the order in which the records came.
C27_SeriesAscendingSummed ==
    (HistoryLoaded /\ forecast_call.loaded.error = Absent) =>
        LET loaded == forecast_call.loaded
            payments == forecast_call.fetch.payments
            other == [forecast_call.fetch EXCEPT !.payments = ReversePayments(payments)]
        IN /\ \A k \in 1..Len(loaded.dates), m \in 1..Len(loaded.dates) :
                 k < m => loaded.dates[k] < loaded.dates[m]
           /\ { loaded.dates[k] : k \in 1..Len(loaded.dates) } = DistinctDays(payments)
           /\ Len(loaded.net_changes) = Len(loaded.dates)
           /\ loaded.record_count = Len(loaded.dates)
           /\ \A k \in 1..Len(loaded.dates) :
                 loaded.net_changes[k] = NetOfDay(payments, loaded.dates[k], SignedLoad)
           /\ F_load_historical_data(ForecastInitState(org_id), other,
                                     forecast_call.allow) = loaded

\* A series built from records that came out of date order, two of them on
\* the same day.
C27_Witness ==
    /\ HistoryLoaded
    /\ forecast_call.loaded.error = Absent
    /\ LET payments == forecast_call.fetch.payments
       IN /\ \E i \in 1..Len(payments), j \in 1..Len(payments) :
                /\ i < j
                /\ payments[i].date.kind = "iso"
                /\ payments[j].date.kind = "iso"
                /\ payments[i].date.day > payments[j].date.day
          /\ \E i \in 1..Len(payments), j \in 1..Len(payments) :
                /\ i # j
                /\ payments[i].date = payments[j].date
                /\ payments[i].date.kind = "iso"
          /\ Len(forecast_call.loaded.dates) < Len(payments)

\* C28: in a success report, every collision with credit_can_cover = true has
\* the draw_credit_line lever attached and can_be_mitigated = true.
C28_CoveredIsMitigated ==
    Succeeded =>
        \A i \in 1..Len(output.collisions_91d) :
            LET c == output.collisions_91d[i]
            IN c.credit_can_cover =>
                 /\ CreditLevers(c) # <<>>
                 /\ c.can_be_mitigated

\* A report with a collision the credit line covers barely (the credit is
\* less than twice the deficit) and whose only lever is the credit line, and
\* a collision the credit line does not cover.
C28_Witness ==
    /\ Succeeded
    /\ \E i \in 1..Len(output.collisions_91d) :
          LET c == output.collisions_91d[i]
          IN /\ c.credit_can_cover
             /\ available_credit < 2 * c.deficit_amount
             /\ Len(c.mitigation_levers) = 1
             /\ CreditLevers(c) # <<>>
    /\ \E i \in 1..Len(output.collisions_91d) :
          ~output.collisions_91d[i].credit_can_cover

\* C29: every collision with days_from_now >= 0 has severity_score <= 87.5,
\* and such a collision that the credit line can cover has
\* severity_score <= 75 and is not labelled 'critical'.
C29_SeverityCeilings ==
    \A i \in 1..Len(collisions) :
        LET c == collisions[i]
        IN (c.has_severity /\ c.days_from_now >= 0) =>
             /\ c.severity_score <= 8750
             /\ c.credit_can_cover =>
                   /\ c.severity_score <= 7500
                   /\ c.severity # "critical"

\* A collision of today that the credit line covers, at the ceiling of 75,
\* next to one it does not cover.
C29_Witness ==
    /\ \E i \in 1..Len(collisions) :
          LET c == collisions[i]
          IN /\ c.has_severity
             /\ c.days_from_now = 0
             /\ c.credit_can_cover
             /\ c.severity_score = 7500
             /\ c.severity = "high"
    /\ \E i \in 1..Len(collisions) :
          /\ collisions[i].has_severity
          /\ ~collisions[i].credit_can_cover

\* C30: in a success report first_collision is the collision of the earliest
\* colliding forecast entry, as fixed at detection time, and carries the
\* severity and mitigation fields of the later passes; it is that collision
\* after the sort by severity, whether or not it heads collisions_91d; and
\* total_collisions_detected is the length of collisions_91d.
C30_FirstCollisionIsEarliest ==
    Succeeded =>
        LET cs == output.collisions_91d
            detected == DetectCollisions(forecast, mandatory_expenses,
                                         minimum_balance, available_credit)
        IN /\ output.total_collisions_detected = Len(cs)
           /\ Len(detected) = Len(cs)
           /\ (cs = <<>>) <=> (output.first_collision = <<>>)
           /\ cs # <<>> =>
                LET fc == output.first_collision[1]
                IN /\ Len(output.first_collision) = 1
                   /\ \E i \in 1..Len(cs) : cs[i] = fc
                   /\ fc.obj = detected[1].obj
                   /\ fc.collision_date = detected[1].collision_date
                   /\ fc.deficit_amount = detected[1].deficit_amount
                   /\ \A i \in 1..Len(cs) :
                         fc.collision_date.day <= cs[i].collision_date.day
                   /\ fc.has_severity
                   /\ fc.has_mitigation

\* A report whose first collision is not the head of collisions_91d and has
\* levers attached.
C30_Witness ==
    /\ Succeeded
    /\ Len(output.collisions_91d) >= 2
    /\ Len(output.first_collision) = 1
    /\ output.first_collision[1] # output.collisions_91d[1]
    /\ output.first_collision[1].mitigation_levers # <<>>
    /\ output.first_collision[1].severity_score < output.collisions_91d[1].severity_score

\* C21: two collision runs for different organisations that interleave at
\* their suspension points, also when both go through the same cached graph
\* and CollisionAgent instance, each end with the state and the report they
\* end with when running alone, and each forecast comes from a
\* ForecastingAgent made by the run's own call, fitted on no other
\* organisation's history and used by no other run.
C21_RunsIndependent ==
    \A r \in Runs :
        conc.run[r].pc = "END" =>
            /\ conc.run[r].st = CollisionGraph(WorldOf(r))
            /\ conc.run[r].st.output = CollisionGraph(WorldOf(r)).output
            /\ conc.run[r].agent # 0 =>
                  /\ conc.agents[conc.run[r].agent].owner = r
                  /\ conc.agents[conc.run[r].agent].fitted_on \in {"none", OrgOf(r)}
                  /\ \A q \in Runs : q # r => conc.run[q].agent # conc.run[r].agent

\* Both runs are over, they went through the same cached graph, one fitted its
\* model between the other's fit and forecast, and the reports differ.
C21_Witness ==
    /\ \A r \in Runs : conc.run[r].pc = "END" /\ conc.run[r].st.output.status = "success"
    /\ conc.run[1].graph = conc.run[2].graph
    /\ conc.run[1].graph # 0
    /\ conc.crossed
    /\ conc.agents[conc.run[1].agent].fitted_on = "A"
    /\ conc.agents[conc.run[2].agent].fitted_on = "B"
    /\ conc.run[1].st.output # conc.run[2].st.output
    /\ conc.run[1].st.output.collisions_91d # <<>>

=============================================================================
